---- MODULE Spec2Model ----
(***************************************************************************)
(* A model of mcp-workato: the WorkatoClient HTTP binding                   *)
(* (src/workato_mcp/client.py), the tool registration groups               *)
(* (src/workato_mcp/tools/*.py) and the server start-up sequence           *)
(* (src/workato_mcp/server.py).                                            *)
(*                                                                         *)
(* A "request" of the model is one call of an httpx.AsyncClient verb       *)
(* (get, post, put, patch, delete) as the client code writes it: the URL   *)
(* and the keyword arguments it passes.  The remote side is the            *)
(* environment: it answers a request with a status and a body, or with a   *)
(* transport error.                                                        *)
(***************************************************************************)
EXTENDS Integers, Sequences, FiniteSets, TLC

VARIABLES
    main,       \* which program runs: "server" (server.py) or "client" (a caller of WorkatoClient, as tests/test_client.py)
    pc,         \* position of the program's start-up code
    environ,    \* os.environ: variable name -> string
    dotenv,     \* the content of the .env file load_dotenv() reads
    clients,    \* the WorkatoClient objects: owner -> object, or NoClient
    built,      \* each object as it was when its construction ended
    attempts,   \* each owner's construction: the arguments, the environment read, the error raised
    registry,   \* the tools registered with the FastMCP instance: tool name -> group
    inv         \* the invocation in flight in each slot

vars == <<main, pc, environ, dotenv, clients, built, attempts, registry, inv>>

----------------------------------------------------------------------------
(* Python values.  Every value is a one-field record whose field name is   *)
(* its type, so that 0, "0", "", None, False, [] and {} stay distinct.     *)

None == [none |-> TRUE]
PyInt(n) == [int |-> n]
PyStr(s) == [str |-> s]
PyBool(b) == [bool |-> b]
PyBytes(s) == [bytes |-> s]
PyList(q) == [list |-> q]
PyDict(f) == [dict |-> f]

IsType(v, t) == t \in DOMAIN v

\* bool(v): the truth value the `if x:` and `x or y` tests of the client use.
Truthy(v) ==
    CASE IsType(v, "none") -> FALSE
      [] IsType(v, "int") -> v.int # 0
      [] IsType(v, "str") -> v.str # ""
      [] IsType(v, "bool") -> v.bool
      [] IsType(v, "bytes") -> v.bytes # ""
      [] IsType(v, "list") -> v.list # <<>>
      [] IsType(v, "dict") -> DOMAIN v.dict # {}

\* `a or b`
PyOr(a, b) == IF Truthy(a) THEN a ELSE b

\* str(v) of a scalar, as an f-string placeholder renders it.
Fmt(v) ==
    CASE IsType(v, "none") -> "None"
      [] IsType(v, "int") -> ToString(v.int)
      [] IsType(v, "str") -> v.str
      [] IsType(v, "bool") -> IF v.bool THEN "True" ELSE "False"

\* s.lower() on the strings the client lowers: str(True), str(False).
Lower(s) ==
    CASE s = "True" -> "true"
      [] s = "False" -> "false"
      [] OTHER -> s

\* d[k] = v on a dict held as a function
SetItem(d, k, v) == (k :> v) @@ d

\* d.update(e)
Update(d, e) == e @@ d

EmptyDict == <<>>

----------------------------------------------------------------------------
(* Construction: WorkatoClient.__init__                                    *)

TokenVar == "WORKATO_API_TOKEN"
BaseVar == "WORKATO_BASE_URL"
DefaultBaseUrl == "https://www.workato.com/api"

\* load_dotenv(): every variable of the .env file that os.environ does not
\* hold yet is added to it (override=False keeps a set variable, empty or not).
load_dotenv(env, file) == env @@ file

\* os.getenv(name, default)
getenv(env, name, default) == IF name \in DOMAIN env THEN PyStr(env[name]) ELSE default

\* The mutant of WorkatoClient_init that never checks the credential.
WorkatoClient_init_unchecked(api_token, base_url, env, file) ==
    LET e == load_dotenv(env, file)
        tok == PyOr(api_token, getenv(e, TokenVar, None))
        url == PyOr(base_url, getenv(e, BaseVar, PyStr(DefaultBaseUrl)))
    IN  [environ |-> e, raised |-> "",
         self |-> [api_token |-> tok, base_url |-> url,
                   headers |-> PyDict(("Authorization" :> PyStr("Bearer " \o Fmt(tok)))
                                   @@ ("Content-Type" :> PyStr("application/json")))]]

\* The mutant of WorkatoClient_init that prefers the environment's token:
\* os.getenv("WORKATO_API_TOKEN") or api_token.
WorkatoClient_init_env_first(api_token, base_url, env, file) ==
    LET e == load_dotenv(env, file)
        tok == PyOr(getenv(e, TokenVar, None), api_token)
        url == PyOr(base_url, getenv(e, BaseVar, PyStr(DefaultBaseUrl)))
    IN  IF ~Truthy(tok)
        THEN [environ |-> e, raised |-> "ValueError"]
        ELSE [environ |-> e, raised |-> "",
              self |-> [api_token |-> tok, base_url |-> url,
                        headers |-> PyDict(("Authorization" :> PyStr("Bearer " \o Fmt(tok)))
                                        @@ ("Content-Type" :> PyStr("application/json")))]]

\* WorkatoClient(api_token, base_url) run with os.environ = env and the .env
\* file `file`: the environment afterwards, and the object or the error raised.
WorkatoClient_init(api_token, base_url, env, file) ==
    LET e == load_dotenv(env, file)
        tok == PyOr(api_token, getenv(e, TokenVar, None))
        url == PyOr(base_url, getenv(e, BaseVar, PyStr(DefaultBaseUrl)))
    IN  IF ~Truthy(tok)
        THEN [environ |-> e, raised |-> "ValueError"]
        ELSE [environ |-> e, raised |-> "",
              self |-> [api_token |-> tok, base_url |-> url,
                        headers |-> PyDict(("Authorization" :> PyStr("Bearer " \o Fmt(tok)))
                                        @@ ("Content-Type" :> PyStr("application/json")))]]

----------------------------------------------------------------------------
(* Client methods.  Each gives the object after the method built its       *)
(* request (self), the httpx.AsyncClient verb it calls, the URL, the       *)
(* keyword arguments it passes, and what it returns from the response      *)
(* ("json": response.json(), "content": response.content).                 *)

Call(self, verb, url, kwargs, returns) ==
    [self |-> self, verb |-> verb, url |-> url, kwargs |-> kwargs, returns |-> returns]

Url(self, path) == Fmt(self.base_url) \o path

H(self) == "headers" :> self.headers

get_recipes(self, include_tags) ==
    LET params == IF Truthy(include_tags)
                  THEN SetItem(EmptyDict, "includes[]", PyStr("tags"))
                  ELSE EmptyDict
    IN  Call(self, "get", Url(self, "/recipes"), H(self) @@ ("params" :> PyDict(params)), "json")

get_recipe_details(self, recipe_id) ==
    Call(self, "get", Url(self, "/recipes/" \o Fmt(recipe_id)), H(self), "json")

start_recipe(self, recipe_id) ==
    Call(self, "put", Url(self, "/recipes/" \o Fmt(recipe_id) \o "/start"), H(self), "json")

stop_recipe(self, recipe_id) ==
    Call(self, "put", Url(self, "/recipes/" \o Fmt(recipe_id) \o "/stop"), H(self), "json")

test_recipe(self, recipe_id, input_data) ==
    Call(self, "post", Url(self, "/recipes/" \o Fmt(recipe_id) \o "/test_run"),
         H(self) @@ ("json" :> PyOr(input_data, PyDict(EmptyDict))), "json")

\* The mutant of create_recipe that sends the payload without its envelope.
create_recipe_bare(self, recipe_data) ==
    Call(self, "post", Url(self, "/recipes"), H(self) @@ ("json" :> recipe_data), "json")

create_recipe(self, recipe_data) ==
    Call(self, "post", Url(self, "/recipes"),
         H(self) @@ ("json" :> PyDict("recipe" :> recipe_data)), "json")

update_recipe(self, recipe_id, recipe_data) ==
    Call(self, "put", Url(self, "/recipes/" \o Fmt(recipe_id)),
         H(self) @@ ("json" :> PyDict("recipe" :> recipe_data)), "json")

delete_recipe(self, recipe_id) ==
    Call(self, "delete", Url(self, "/recipes/" \o Fmt(recipe_id)), H(self), "json")

\* The mutant of get_jobs that sends every filter, supplied or not.
get_jobs_all_keys(self, recipe_id, status, limit) ==
    Call(self, "get", Url(self, "/jobs"),
         H(self) @@ ("params" :> PyDict(("recipe_id" :> recipe_id) @@ ("status" :> status)
                                        @@ ("limit" :> limit))), "json")

get_jobs(self, recipe_id, status, limit) ==
    LET p0 == EmptyDict
        p1 == IF Truthy(recipe_id) THEN SetItem(p0, "recipe_id", recipe_id) ELSE p0
        p2 == IF Truthy(status) THEN SetItem(p1, "status", status) ELSE p1
        p3 == IF Truthy(limit) THEN SetItem(p2, "limit", limit) ELSE p2
    IN  Call(self, "get", Url(self, "/jobs"), H(self) @@ ("params" :> PyDict(p3)), "json")

get_job_details(self, job_id) ==
    Call(self, "get", Url(self, "/jobs/" \o Fmt(job_id)), H(self), "json")

get_folders(self) ==
    Call(self, "get", Url(self, "/folders"), H(self), "json")

get_connections(self) ==
    Call(self, "get", Url(self, "/connections"), H(self), "json")

get_connection_details(self, connection_id) ==
    Call(self, "get", Url(self, "/connections/" \o Fmt(connection_id)), H(self), "json")

\* The mutant of copy_recipe that tests folder_id against None.
copy_recipe_not_none(self, recipe_id, folder_id) ==
    LET payload == IF folder_id # None
                   THEN SetItem(EmptyDict, "folder_id", folder_id)
                   ELSE EmptyDict
    IN  Call(self, "post", Url(self, "/recipes/" \o Fmt(recipe_id) \o "/copy"),
             H(self) @@ ("json" :> IF Truthy(PyDict(payload)) THEN PyDict(payload) ELSE None),
             "json")

copy_recipe(self, recipe_id, folder_id) ==
    LET payload == IF Truthy(folder_id)
                   THEN SetItem(EmptyDict, "folder_id", folder_id)
                   ELSE EmptyDict
    IN  Call(self, "post", Url(self, "/recipes/" \o Fmt(recipe_id) \o "/copy"),
             H(self) @@ ("json" :> IF Truthy(PyDict(payload)) THEN PyDict(payload) ELSE None),
             "json")

reset_recipe_trigger(self, recipe_id) ==
    Call(self, "post", Url(self, "/recipes/" \o Fmt(recipe_id) \o "/reset_trigger"), H(self), "json")

update_recipe_connection(self, recipe_id, adapter_name, connection_id) ==
    LET payload == ("adapter_name" :> adapter_name) @@ ("connection_id" :> connection_id)
    IN  Call(self, "put", Url(self, "/recipes/" \o Fmt(recipe_id) \o "/connect"),
             H(self) @@ ("json" :> PyDict(payload)), "json")

poll_recipe_now(self, recipe_id) ==
    Call(self, "post", Url(self, "/recipes/" \o Fmt(recipe_id) \o "/poll_now"), H(self), "json")

get_recipe_versions(self, recipe_id, page, per_page) ==
    LET params == ("page" :> page) @@ ("per_page" :> per_page)
    IN  Call(self, "get", Url(self, "/recipes/" \o Fmt(recipe_id) \o "/versions"),
             H(self) @@ ("params" :> PyDict(params)), "json")

get_recipe_version_details(self, recipe_id, version_id) ==
    Call(self, "get",
         Url(self, "/recipes/" \o Fmt(recipe_id) \o "/versions/" \o Fmt(version_id)),
         H(self), "json")

update_recipe_version_comment(self, recipe_id, version_id, comment) ==
    LET payload == "comment" :> comment
    IN  Call(self, "patch",
             Url(self, "/recipes/" \o Fmt(recipe_id) \o "/versions/" \o Fmt(version_id)),
             H(self) @@ ("json" :> PyDict(payload)), "json")

get_folder_assets(self, folder_id, include_test_cases, include_data) ==
    LET p0 == EmptyDict
        p1 == IF folder_id # None THEN SetItem(p0, "folder_id", folder_id) ELSE p0
        p2 == IF Truthy(include_test_cases)
              THEN SetItem(p1, "include_test_cases", PyStr(Lower(Fmt(include_test_cases))))
              ELSE p1
        p3 == IF Truthy(include_data)
              THEN SetItem(p2, "include_data", PyStr(Lower(Fmt(include_data))))
              ELSE p2
    IN  Call(self, "get", Url(self, "/export_manifests/folder_assets"),
             H(self) @@ ("params" :> PyDict(p3)), "json")

create_export_manifest(self, export_manifest) ==
    LET payload == "export_manifest" :> export_manifest
    IN  Call(self, "post", Url(self, "/export_manifests"),
             H(self) @@ ("json" :> PyDict(payload)), "json")

update_export_manifest(self, manifest_id, export_manifest) ==
    LET payload == "export_manifest" :> export_manifest
    IN  Call(self, "put", Url(self, "/export_manifests/" \o Fmt(manifest_id)),
             H(self) @@ ("json" :> PyDict(payload)), "json")

get_export_manifest(self, manifest_id) ==
    Call(self, "get", Url(self, "/export_manifests/" \o Fmt(manifest_id)), H(self), "json")

delete_export_manifest(self, manifest_id) ==
    Call(self, "delete", Url(self, "/export_manifests/" \o Fmt(manifest_id)), H(self), "json")

export_package(self, manifest_id) ==
    Call(self, "post", Url(self, "/packages/export/" \o Fmt(manifest_id)), H(self), "json")

\* The mutant of import_package that sets the content type in the shared
\* headers (self.headers["Content-Type"] = ...) instead of in a copy.
import_package_in_place(self, folder_id, file_bytes, restart_recipes, include_tags, folder_id_for_home_assets) ==
    LET p0 == ("restart_recipes" :> PyStr(Lower(Fmt(restart_recipes))))
              @@ ("include_tags" :> PyStr(Lower(Fmt(include_tags))))
        p1 == IF Truthy(folder_id_for_home_assets)
              THEN SetItem(p0, "folder_id_for_home_assets", folder_id_for_home_assets)
              ELSE p0
        shared == PyDict(SetItem(self.headers.dict, "Content-Type", PyStr("application/octet-stream")))
    IN  Call([self EXCEPT !.headers = shared], "post", Url(self, "/packages/import/" \o Fmt(folder_id)),
             ("headers" :> shared) @@ ("params" :> PyDict(p1)) @@ ("content" :> file_bytes),
             "json")

\* The mutant of import_package that sends only the content type.
import_package_no_auth(self, folder_id, file_bytes, restart_recipes, include_tags, folder_id_for_home_assets) ==
    LET p0 == ("restart_recipes" :> PyStr(Lower(Fmt(restart_recipes))))
              @@ ("include_tags" :> PyStr(Lower(Fmt(include_tags))))
    IN  Call(self, "post", Url(self, "/packages/import/" \o Fmt(folder_id)),
             ("headers" :> PyDict("Content-Type" :> PyStr("application/octet-stream")))
             @@ ("params" :> PyDict(p0)) @@ ("content" :> file_bytes),
             "json")

import_package(self, folder_id, file_bytes, restart_recipes, include_tags, folder_id_for_home_assets) ==
    LET p0 == ("restart_recipes" :> PyStr(Lower(Fmt(restart_recipes))))
              @@ ("include_tags" :> PyStr(Lower(Fmt(include_tags))))
        p1 == IF Truthy(folder_id_for_home_assets)
              THEN SetItem(p0, "folder_id_for_home_assets", folder_id_for_home_assets)
              ELSE p0
        \* {**self.headers, "Content-Type": ...}: a new dict, self.headers untouched
        headers == PyDict(SetItem(self.headers.dict, "Content-Type", PyStr("application/octet-stream")))
    IN  Call(self, "post", Url(self, "/packages/import/" \o Fmt(folder_id)),
             ("headers" :> headers) @@ ("params" :> PyDict(p1)) @@ ("content" :> file_bytes),
             "json")

get_package(self, package_id) ==
    Call(self, "get", Url(self, "/packages/" \o Fmt(package_id)), H(self), "json")

\* The mutant of download_package that decodes the body as the other methods do.
download_package_decoded(self, package_id) ==
    Call(self, "get", Url(self, "/packages/" \o Fmt(package_id) \o "/download"),
         H(self) @@ ("follow_redirects" :> PyBool(TRUE)), "json")

download_package(self, package_id) ==
    Call(self, "get", Url(self, "/packages/" \o Fmt(package_id) \o "/download"),
         H(self) @@ ("follow_redirects" :> PyBool(TRUE)), "content")

search_custom_connectors(self, title) ==
    LET payload == "title" :> title
    IN  Call(self, "get", Url(self, "/custom_connectors/search"),
             H(self) @@ ("json" :> PyDict(payload)), "json")

get_custom_connector_code(self, connector_id) ==
    Call(self, "get", Url(self, "/custom_connectors/" \o Fmt(connector_id) \o "/code"), H(self), "json")

generate_schema_from_json(self, sample) ==
    LET payload == "sample" :> sample
    IN  Call(self, "post", Url(self, "/sdk/generate_schema/json"),
             H(self) @@ ("json" :> PyDict(payload)), "json")

generate_schema_from_csv(self, sample, col_sep) ==
    LET p0 == "sample" :> sample
        p1 == IF Truthy(col_sep) THEN SetItem(p0, "col_sep", col_sep) ELSE p0
    IN  Call(self, "post", Url(self, "/sdk/generate_schema/csv"),
             H(self) @@ ("json" :> PyDict(p1)), "json")

create_custom_connector(self, connector) ==
    Call(self, "post", Url(self, "/custom_connectors"), H(self) @@ ("json" :> connector), "json")

release_custom_connector(self, connector_id) ==
    Call(self, "post", Url(self, "/custom_connectors/" \o Fmt(connector_id) \o "/release"), H(self), "json")

share_custom_connector(self, connector_id) ==
    Call(self, "post", Url(self, "/custom_connectors/" \o Fmt(connector_id) \o "/share"), H(self), "json")

update_custom_connector(self, connector_id, connector) ==
    Call(self, "put", Url(self, "/custom_connectors/" \o Fmt(connector_id)),
         H(self) @@ ("json" :> connector), "json")

list_connections(self, folder_id, parent_id, external_id, include_runtime_connections, includes) ==
    LET p0 == EmptyDict
        p1 == IF Truthy(folder_id) THEN SetItem(p0, "folder_id", folder_id) ELSE p0
        p2 == IF Truthy(parent_id) THEN SetItem(p1, "parent_id", parent_id) ELSE p1
        p3 == IF Truthy(external_id) THEN SetItem(p2, "external_id", external_id) ELSE p2
        p4 == IF Truthy(include_runtime_connections)
              THEN SetItem(p3, "include_runtime_connections", include_runtime_connections)
              ELSE p3
        p5 == IF Truthy(includes) THEN SetItem(p4, "includes[]", includes) ELSE p4
    IN  Call(self, "get", Url(self, "/connections"), H(self) @@ ("params" :> PyDict(p5)), "json")

create_connection(self, connection) ==
    Call(self, "post", Url(self, "/connections"), H(self) @@ ("json" :> connection), "json")

update_connection(self, connection_id, connection) ==
    Call(self, "put", Url(self, "/connections/" \o Fmt(connection_id)),
         H(self) @@ ("json" :> connection), "json")

\* The mutant of disconnect_connection that always sends {"force": force}.
disconnect_connection_always_body(self, connection_id, force) ==
    Call(self, "post", Url(self, "/connections/" \o Fmt(connection_id) \o "/disconnect"),
         H(self) @@ ("json" :> PyDict("force" :> force)), "json")

disconnect_connection(self, connection_id, force) ==
    LET payload == IF Truthy(force) THEN "force" :> force ELSE EmptyDict
    IN  Call(self, "post", Url(self, "/connections/" \o Fmt(connection_id) \o "/disconnect"),
             H(self) @@ ("json" :> IF Truthy(PyDict(payload)) THEN PyDict(payload) ELSE None),
             "json")

delete_connection(self, connection_id) ==
    Call(self, "delete", Url(self, "/connections/" \o Fmt(connection_id)), H(self), "json")

list_lookup_tables(self, page, per_page) ==
    LET params == ("page" :> page) @@ ("per_page" :> per_page)
    IN  Call(self, "get", Url(self, "/lookup_tables"), H(self) @@ ("params" :> PyDict(params)), "json")

list_lookup_table_rows(self, lookup_table_id, page, per_page, filters) ==
    LET p0 == ("page" :> page) @@ ("per_page" :> per_page)
        p1 == IF Truthy(filters) THEN Update(p0, filters.dict) ELSE p0
    IN  Call(self, "get", Url(self, "/lookup_tables/" \o Fmt(lookup_table_id) \o "/rows"),
             H(self) @@ ("params" :> PyDict(p1)), "json")

lookup_table_row(self, lookup_table_id, filters) ==
    Call(self, "get", Url(self, "/lookup_tables/" \o Fmt(lookup_table_id) \o "/lookup"),
         H(self) @@ ("params" :> filters), "json")

get_lookup_table_row(self, lookup_table_id, row_id) ==
    Call(self, "get",
         Url(self, "/lookup_tables/" \o Fmt(lookup_table_id) \o "/rows/" \o Fmt(row_id)),
         H(self), "json")

add_lookup_table_row(self, lookup_table_id, data) ==
    LET payload == "data" :> data
    IN  Call(self, "post", Url(self, "/lookup_tables/" \o Fmt(lookup_table_id) \o "/rows"),
             H(self) @@ ("json" :> PyDict(payload)), "json")

create_lookup_table(self, lookup_table) ==
    LET payload == "lookup_table" :> lookup_table
    IN  Call(self, "post", Url(self, "/lookup_tables"), H(self) @@ ("json" :> PyDict(payload)), "json")

batch_delete_lookup_tables(self, ids) ==
    LET payload == "ids" :> ids
    IN  Call(self, "post", Url(self, "/lookup_tables/batch_delete"),
             H(self) @@ ("json" :> PyDict(payload)), "json")

update_lookup_table_row(self, lookup_table_id, row_id, data) ==
    LET payload == "data" :> data
    IN  Call(self, "put",
             Url(self, "/lookup_tables/" \o Fmt(lookup_table_id) \o "/rows/" \o Fmt(row_id)),
             H(self) @@ ("json" :> PyDict(payload)), "json")

delete_lookup_table_row(self, lookup_table_id, row_id) ==
    Call(self, "delete",
         Url(self, "/lookup_tables/" \o Fmt(lookup_table_id) \o "/rows/" \o Fmt(row_id)),
         H(self), "json")

----------------------------------------------------------------------------
(* Calling a method: the arguments the caller gives are a dict of keyword  *)
(* arguments (an omitted parameter has no key); the signature's default    *)
(* binds an omitted parameter.                                             *)

Arg(a, name, default) == IF name \in DOMAIN a THEN a[name] ELSE default

\* The method `m` of WorkatoClient called on `self` with the arguments `a`.
ClientMethod(m, self, a) ==
    CASE m = "get_recipes" -> get_recipes(self, Arg(a, "include_tags", PyBool(FALSE)))
      [] m = "get_recipe_details" -> get_recipe_details(self, a["recipe_id"])
      [] m = "start_recipe" -> start_recipe(self, a["recipe_id"])
      [] m = "stop_recipe" -> stop_recipe(self, a["recipe_id"])
      [] m = "test_recipe" -> test_recipe(self, a["recipe_id"], Arg(a, "input_data", None))
      [] m = "create_recipe" -> create_recipe(self, a["recipe_data"])
      [] m = "update_recipe" -> update_recipe(self, a["recipe_id"], a["recipe_data"])
      [] m = "delete_recipe" -> delete_recipe(self, a["recipe_id"])
      [] m = "get_jobs" -> get_jobs(self, Arg(a, "recipe_id", None), Arg(a, "status", None),
                                    Arg(a, "limit", None))
      [] m = "get_job_details" -> get_job_details(self, a["job_id"])
      [] m = "get_folders" -> get_folders(self)
      [] m = "get_connections" -> get_connections(self)
      [] m = "get_connection_details" -> get_connection_details(self, a["connection_id"])
      [] m = "copy_recipe" -> copy_recipe(self, a["recipe_id"], Arg(a, "folder_id", None))
      [] m = "reset_recipe_trigger" -> reset_recipe_trigger(self, a["recipe_id"])
      [] m = "update_recipe_connection" ->
            update_recipe_connection(self, a["recipe_id"], a["adapter_name"], a["connection_id"])
      [] m = "poll_recipe_now" -> poll_recipe_now(self, a["recipe_id"])
      [] m = "get_recipe_versions" ->
            get_recipe_versions(self, a["recipe_id"], Arg(a, "page", PyInt(1)),
                                Arg(a, "per_page", PyInt(100)))
      [] m = "get_recipe_version_details" ->
            get_recipe_version_details(self, a["recipe_id"], a["version_id"])
      [] m = "update_recipe_version_comment" ->
            update_recipe_version_comment(self, a["recipe_id"], a["version_id"], a["comment"])
      [] m = "get_folder_assets" ->
            get_folder_assets(self, Arg(a, "folder_id", None),
                              Arg(a, "include_test_cases", PyBool(FALSE)),
                              Arg(a, "include_data", PyBool(FALSE)))
      [] m = "create_export_manifest" -> create_export_manifest(self, a["export_manifest"])
      [] m = "update_export_manifest" ->
            update_export_manifest(self, a["manifest_id"], a["export_manifest"])
      [] m = "get_export_manifest" -> get_export_manifest(self, a["manifest_id"])
      [] m = "delete_export_manifest" -> delete_export_manifest(self, a["manifest_id"])
      [] m = "export_package" -> export_package(self, a["manifest_id"])
      [] m = "import_package" ->
            import_package(self, a["folder_id"], a["file_bytes"],
                           Arg(a, "restart_recipes", PyBool(FALSE)),
                           Arg(a, "include_tags", PyBool(FALSE)),
                           Arg(a, "folder_id_for_home_assets", None))
      [] m = "get_package" -> get_package(self, a["package_id"])
      [] m = "download_package" -> download_package(self, a["package_id"])
      [] m = "search_custom_connectors" -> search_custom_connectors(self, a["title"])
      [] m = "get_custom_connector_code" -> get_custom_connector_code(self, a["connector_id"])
      [] m = "generate_schema_from_json" -> generate_schema_from_json(self, a["sample"])
      [] m = "generate_schema_from_csv" ->
            generate_schema_from_csv(self, a["sample"], Arg(a, "col_sep", None))
      [] m = "create_custom_connector" -> create_custom_connector(self, a["connector"])
      [] m = "release_custom_connector" -> release_custom_connector(self, a["connector_id"])
      [] m = "share_custom_connector" -> share_custom_connector(self, a["connector_id"])
      [] m = "update_custom_connector" ->
            update_custom_connector(self, a["connector_id"], a["connector"])
      [] m = "list_connections" ->
            list_connections(self, Arg(a, "folder_id", None), Arg(a, "parent_id", None),
                             Arg(a, "external_id", None),
                             Arg(a, "include_runtime_connections", None),
                             Arg(a, "includes", None))
      [] m = "create_connection" -> create_connection(self, a["connection"])
      [] m = "update_connection" -> update_connection(self, a["connection_id"], a["connection"])
      [] m = "disconnect_connection" ->
            disconnect_connection(self, a["connection_id"], Arg(a, "force", PyBool(FALSE)))
      [] m = "delete_connection" -> delete_connection(self, a["connection_id"])
      [] m = "list_lookup_tables" ->
            list_lookup_tables(self, Arg(a, "page", PyInt(1)), Arg(a, "per_page", PyInt(100)))
      [] m = "list_lookup_table_rows" ->
            list_lookup_table_rows(self, a["lookup_table_id"], Arg(a, "page", PyInt(1)),
                                   Arg(a, "per_page", PyInt(500)), Arg(a, "filters", None))
      [] m = "lookup_table_row" -> lookup_table_row(self, a["lookup_table_id"], a["filters"])
      [] m = "get_lookup_table_row" ->
            get_lookup_table_row(self, a["lookup_table_id"], a["row_id"])
      [] m = "add_lookup_table_row" -> add_lookup_table_row(self, a["lookup_table_id"], a["data"])
      [] m = "create_lookup_table" -> create_lookup_table(self, a["lookup_table"])
      [] m = "batch_delete_lookup_tables" -> batch_delete_lookup_tables(self, a["ids"])
      [] m = "update_lookup_table_row" ->
            update_lookup_table_row(self, a["lookup_table_id"], a["row_id"], a["data"])
      [] m = "delete_lookup_table_row" ->
            delete_lookup_table_row(self, a["lookup_table_id"], a["row_id"])

ClientMethods ==
    {"get_recipes", "get_recipe_details", "start_recipe", "stop_recipe", "test_recipe",
     "create_recipe", "update_recipe", "delete_recipe", "get_jobs", "get_job_details",
     "get_folders", "get_connections", "get_connection_details", "copy_recipe",
     "reset_recipe_trigger", "update_recipe_connection", "poll_recipe_now",
     "get_recipe_versions", "get_recipe_version_details", "update_recipe_version_comment",
     "get_folder_assets", "create_export_manifest", "update_export_manifest",
     "get_export_manifest", "delete_export_manifest", "export_package", "import_package",
     "get_package", "download_package", "search_custom_connectors",
     "get_custom_connector_code", "generate_schema_from_json", "generate_schema_from_csv",
     "create_custom_connector", "release_custom_connector", "share_custom_connector",
     "update_custom_connector", "list_connections", "create_connection",
     "update_connection", "disconnect_connection", "delete_connection",
     "list_lookup_tables", "list_lookup_table_rows", "lookup_table_row",
     "get_lookup_table_row", "add_lookup_table_row", "create_lookup_table",
     "batch_delete_lookup_tables", "update_lookup_table_row", "delete_lookup_table_row"}

----------------------------------------------------------------------------
(* The request models (models/recipe.py) and the tool bodies.              *)

\* RecipeData(**fields): a missing optional field holds None.
RecipeData(fields) ==
    ("name" :> fields["name"]) @@ ("code" :> fields["code"])
    @@ ("folder_id" :> Arg(fields, "folder_id", None))
    @@ ("description" :> Arg(fields, "description", None))

\* The mutant of TestRecipeInput whose input_data defaults to an empty dict.
TestRecipeInput_empty_default(fields) ==
    ("recipe_id" :> fields["recipe_id"])
    @@ ("input_data" :> Arg(fields, "input_data", PyDict(EmptyDict)))

\* TestRecipeInput(**fields)
TestRecipeInput(fields) ==
    ("recipe_id" :> fields["recipe_id"]) @@ ("input_data" :> Arg(fields, "input_data", None))

\* The mutant of dict_exclude_none that is model.dict(): None fields stay.
dict_all(model) == PyDict(model)

\* model.dict(exclude_none=True)
dict_exclude_none(model) ==
    PyDict([k \in {f \in DOMAIN model : model[f] # None} |-> model[k]])

\* The parts of a returned f-string: literal text, {result} and {len(result)}.
Lit(s) == [lit |-> s]
FResult == [f |-> "result"]
FLen == [f |-> "len(result)"]

\* The mutant of Labelled that returns the label without the result.
Labelled_no_value(label) == [fstring |-> <<Lit(label)>>]

\* return f"<label>{result}": the usual tool return
Labelled(label) == [fstring |-> <<Lit(label), FResult>>]

\* A tool body: the client method it awaits, with which arguments, and what
\* it returns.
Body(method, args, ret) == [method |-> method, args |-> args, ret |-> ret]

R(a) == "recipe_id" :> a["recipe_id"]

\* The tools register_recipe_tools(mcp) declares: the body of tool t called
\* with the arguments a.
register_recipe_tools(t, a) ==
    CASE t = "list_recipes" ->
            Body("get_recipes", "include_tags" :> Arg(a, "include_tags", PyBool(FALSE)),
                 [fstring |-> <<Lit("Found "), FLen, Lit(" recipes:\n\n"), FResult>>])
      [] t = "get_recipe" ->
            Body("get_recipe_details", R(a), Labelled("Recipe details:\n\n"))
      [] t = "start_recipe" -> Body("start_recipe", R(a), Labelled("Start recipe result: "))
      [] t = "stop_recipe" -> Body("stop_recipe", R(a), Labelled("Stop recipe result: "))
      [] t = "test_recipe" ->
            LET input == TestRecipeInput(a["input"].dict)
            IN  Body("test_recipe",
                     ("recipe_id" :> input["recipe_id"]) @@ ("input_data" :> input["input_data"]),
                     Labelled("Test recipe result: "))
      [] t = "create_recipe" ->
            LET recipe_data == dict_exclude_none(RecipeData(a["recipe"].dict))
            IN  Body("create_recipe", "recipe_data" :> recipe_data, Labelled("Created recipe: "))
      [] t = "update_recipe" ->
            LET recipe_data == dict_exclude_none(RecipeData(a["recipe"].dict))
            IN  Body("update_recipe", R(a) @@ ("recipe_data" :> recipe_data),
                     Labelled("Updated recipe: "))
      [] t = "delete_recipe" -> Body("delete_recipe", R(a), Labelled("Delete recipe result: "))
      [] t = "copy_recipe" ->
            Body("copy_recipe", R(a) @@ ("folder_id" :> Arg(a, "folder_id", None)),
                 Labelled("Copy recipe result: "))
      [] t = "reset_recipe_trigger" ->
            Body("reset_recipe_trigger", R(a), Labelled("Reset recipe trigger result: "))
      [] t = "update_recipe_connection" ->
            Body("update_recipe_connection",
                 R(a) @@ ("adapter_name" :> a["adapter_name"])
                      @@ ("connection_id" :> a["connection_id"]),
                 Labelled("Update recipe connection result: "))
      [] t = "poll_recipe_now" ->
            Body("poll_recipe_now", R(a), Labelled("Poll recipe now result: "))
      [] t = "get_recipe_versions" ->
            Body("get_recipe_versions",
                 R(a) @@ ("page" :> Arg(a, "page", PyInt(1)))
                      @@ ("per_page" :> Arg(a, "per_page", PyInt(100))),
                 Labelled("Recipe versions: "))
      [] t = "get_recipe_version_details" ->
            Body("get_recipe_version_details", R(a) @@ ("version_id" :> a["version_id"]),
                 Labelled("Recipe version details: "))
      [] t = "update_recipe_version_comment" ->
            Body("update_recipe_version_comment",
                 R(a) @@ ("version_id" :> a["version_id"]) @@ ("comment" :> a["comment"]),
                 Labelled("Update recipe version comment result: "))

M(a) == "manifest_id" :> a["manifest_id"]

register_recipe_lifecycle_tools(t, a) ==
    CASE t = "get_folder_assets" ->
            Body("get_folder_assets",
                 ("folder_id" :> Arg(a, "folder_id", None))
                 @@ ("include_test_cases" :> Arg(a, "include_test_cases", PyBool(FALSE)))
                 @@ ("include_data" :> Arg(a, "include_data", PyBool(FALSE))),
                 Labelled("Folder assets: "))
      [] t = "create_export_manifest" ->
            Body("create_export_manifest", "export_manifest" :> a["export_manifest"],
                 Labelled("Created export manifest: "))
      [] t = "update_export_manifest" ->
            Body("update_export_manifest", M(a) @@ ("export_manifest" :> a["export_manifest"]),
                 Labelled("Updated export manifest: "))
      [] t = "get_export_manifest" ->
            Body("get_export_manifest", M(a), Labelled("Export manifest: "))
      [] t = "delete_export_manifest" ->
            Body("delete_export_manifest", M(a), Labelled("Delete export manifest result: "))
      [] t = "export_package" ->
            Body("export_package", M(a), Labelled("Export package result: "))
      [] t = "import_package" ->
            Body("import_package",
                 ("folder_id" :> a["folder_id"]) @@ ("file_bytes" :> a["file_bytes"])
                 @@ ("restart_recipes" :> Arg(a, "restart_recipes", PyBool(FALSE)))
                 @@ ("include_tags" :> Arg(a, "include_tags", PyBool(FALSE)))
                 @@ ("folder_id_for_home_assets" :> Arg(a, "folder_id_for_home_assets", None)),
                 Labelled("Import package result: "))
      [] t = "get_package" ->
            Body("get_package", "package_id" :> a["package_id"], Labelled("Package details: "))
      [] t = "download_package" ->
            Body("download_package", "package_id" :> a["package_id"], [name |-> "result"])

K(a) == "connector_id" :> a["connector_id"]

register_custom_connector_sdk_tools(t, a) ==
    CASE t = "search_custom_connectors" ->
            Body("search_custom_connectors", "title" :> a["title"],
                 Labelled("Custom connector search result: "))
      [] t = "get_custom_connector_code" ->
            Body("get_custom_connector_code", K(a), Labelled("Custom connector code: "))
      [] t = "generate_schema_from_json" ->
            Body("generate_schema_from_json", "sample" :> a["sample"],
                 Labelled("Generated schema from JSON: "))
      [] t = "generate_schema_from_csv" ->
            Body("generate_schema_from_csv",
                 ("sample" :> a["sample"]) @@ ("col_sep" :> Arg(a, "col_sep", None)),
                 Labelled("Generated schema from CSV: "))
      [] t = "create_custom_connector" ->
            Body("create_custom_connector", "connector" :> a["connector"],
                 Labelled("Created custom connector: "))
      [] t = "release_custom_connector" ->
            Body("release_custom_connector", K(a), Labelled("Release custom connector result: "))
      [] t = "share_custom_connector" ->
            Body("share_custom_connector", K(a), Labelled("Share custom connector result: "))
      [] t = "update_custom_connector" ->
            Body("update_custom_connector", K(a) @@ ("connector" :> a["connector"]),
                 Labelled("Updated custom connector: "))

N(a) == "connection_id" :> a["connection_id"]

register_connection_tools(t, a) ==
    CASE t = "list_connections" ->
            Body("list_connections",
                 ("folder_id" :> Arg(a, "folder_id", None))
                 @@ ("parent_id" :> Arg(a, "parent_id", None))
                 @@ ("external_id" :> Arg(a, "external_id", None))
                 @@ ("include_runtime_connections" :> Arg(a, "include_runtime_connections", None))
                 @@ ("includes" :> Arg(a, "includes", None)),
                 Labelled("Connections: "))
      [] t = "create_connection" ->
            Body("create_connection", "connection" :> a["connection"],
                 Labelled("Created connection: "))
      [] t = "update_connection" ->
            Body("update_connection", N(a) @@ ("connection" :> a["connection"]),
                 Labelled("Updated connection: "))
      [] t = "disconnect_connection" ->
            Body("disconnect_connection", N(a) @@ ("force" :> Arg(a, "force", PyBool(FALSE))),
                 Labelled("Disconnect connection result: "))
      [] t = "delete_connection" ->
            Body("delete_connection", N(a), Labelled("Delete connection result: "))

L(a) == "lookup_table_id" :> a["lookup_table_id"]

register_lookup_table_tools(t, a) ==
    CASE t = "list_lookup_tables" ->
            Body("list_lookup_tables",
                 ("page" :> Arg(a, "page", PyInt(1))) @@ ("per_page" :> Arg(a, "per_page", PyInt(100))),
                 Labelled("Lookup tables: "))
      [] t = "list_lookup_table_rows" ->
            Body("list_lookup_table_rows",
                 L(a) @@ ("page" :> Arg(a, "page", PyInt(1)))
                      @@ ("per_page" :> Arg(a, "per_page", PyInt(500)))
                      @@ ("filters" :> Arg(a, "filters", None)),
                 Labelled("Lookup table rows: "))
      [] t = "lookup_table_row" ->
            Body("lookup_table_row", L(a) @@ ("filters" :> a["filters"]),
                 Labelled("Lookup table row: "))
      [] t = "get_lookup_table_row" ->
            Body("get_lookup_table_row", L(a) @@ ("row_id" :> a["row_id"]),
                 Labelled("Lookup table row: "))
      [] t = "add_lookup_table_row" ->
            Body("add_lookup_table_row", L(a) @@ ("data" :> a["data"]),
                 Labelled("Added lookup table row: "))
      [] t = "create_lookup_table" ->
            Body("create_lookup_table", "lookup_table" :> a["lookup_table"],
                 Labelled("Created lookup table: "))
      [] t = "batch_delete_lookup_tables" ->
            Body("batch_delete_lookup_tables", "ids" :> a["ids"],
                 Labelled("Batch delete result: "))
      [] t = "update_lookup_table_row" ->
            Body("update_lookup_table_row",
                 L(a) @@ ("row_id" :> a["row_id"]) @@ ("data" :> a["data"]),
                 Labelled("Updated lookup table row: "))
      [] t = "delete_lookup_table_row" ->
            Body("delete_lookup_table_row", L(a) @@ ("row_id" :> a["row_id"]),
                 Labelled("Delete lookup table row result: "))

\* The modules server.py imports (lines 7-11) and whose register function it
\* calls (lines 38-42), in that order.
Groups ==
    <<"recipes", "recipe_lifecycle_management", "custom_connector_sdk", "connections",
      "lookup_tables">>

GroupTools(g) ==
    CASE g = "recipes" ->
            {"list_recipes", "get_recipe", "start_recipe", "stop_recipe", "test_recipe",
             "create_recipe", "update_recipe", "delete_recipe", "copy_recipe",
             "reset_recipe_trigger", "update_recipe_connection", "poll_recipe_now",
             "get_recipe_versions", "get_recipe_version_details",
             "update_recipe_version_comment"}
      [] g = "recipe_lifecycle_management" ->
            {"get_folder_assets", "create_export_manifest", "update_export_manifest",
             "get_export_manifest", "delete_export_manifest", "export_package",
             "import_package", "get_package", "download_package"}
      [] g = "custom_connector_sdk" ->
            {"search_custom_connectors", "get_custom_connector_code",
             "generate_schema_from_json", "generate_schema_from_csv",
             "create_custom_connector", "release_custom_connector",
             "share_custom_connector", "update_custom_connector"}
      [] g = "connections" ->
            {"list_connections", "create_connection", "update_connection",
             "disconnect_connection", "delete_connection"}
      [] g = "lookup_tables" ->
            {"list_lookup_tables", "list_lookup_table_rows", "lookup_table_row",
             "get_lookup_table_row", "add_lookup_table_row", "create_lookup_table",
             "batch_delete_lookup_tables", "update_lookup_table_row",
             "delete_lookup_table_row"}

\* The body of the tool t that group g registered.
ToolBody(g, t, a) ==
    CASE g = "recipes" -> register_recipe_tools(t, a)
      [] g = "recipe_lifecycle_management" -> register_recipe_lifecycle_tools(t, a)
      [] g = "custom_connector_sdk" -> register_custom_connector_sdk_tools(t, a)
      [] g = "connections" -> register_connection_tools(t, a)
      [] g = "lookup_tables" -> register_lookup_table_tools(t, a)

----------------------------------------------------------------------------
(* The transport and the rest of a client method after its await.          *)

\* The keyword arguments the httpx.AsyncClient verbs take: get and delete
\* take no request body (json, content, data, files); a call with a keyword
\* the verb does not take raises TypeError before anything is sent.
VerbKwargs(verb) ==
    LET common == {"params", "headers", "cookies", "auth", "follow_redirects", "timeout",
                   "extensions"}
    IN  IF verb \in {"get", "delete"}
        THEN common
        ELSE common \cup {"content", "data", "files", "json"}

Accepts(c) == DOMAIN c.kwargs \subseteq VerbKwargs(c.verb)

\* The request a call puts on the transport.
Request(c) == [verb |-> c.verb, url |-> c.url, kwargs |-> c.kwargs]

NoValue == [absent |-> TRUE]

\* json.loads of a response body: the decoded value, or NoValue when the
\* body is not JSON.
json_loads(content) ==
    CASE content = "{\"id\": 1}" -> PyDict("id" :> PyInt(1))
      [] content = "[]" -> PyList(<<>>)
      [] content = "[{\"id\": 1}, {\"id\": 2}]" ->
            PyList(<<PyDict("id" :> PyInt(1)), PyDict("id" :> PyInt(2))>>)
      [] OTHER -> NoValue

\* response.is_success
is_success(status) == status >= 200 /\ status <= 299

Outcome(raised, value, events) == [raised |-> raised, value |-> value, events |-> events]

\* The mutant of ClientReturn that never calls response.raise_for_status().
ClientReturn_unchecked(returns, response) ==
    IF "error" \in DOMAIN response
    THEN Outcome(response.error, NoValue, <<"aexit", "raise">>)
    ELSE IF returns = "content"
    THEN Outcome("", PyBytes(response.content), <<"recv", "content", "aexit", "return">>)
    ELSE IF json_loads(response.content) = NoValue
    THEN Outcome("JSONDecodeError", NoValue, <<"recv", "json", "aexit", "raise">>)
    ELSE Outcome("", json_loads(response.content), <<"recv", "json", "aexit", "return">>)

\* The mutant of ClientReturn that decodes the body, then checks the status.
ClientReturn_decode_first(returns, response) ==
    IF "error" \in DOMAIN response
    THEN Outcome(response.error, NoValue, <<"aexit", "raise">>)
    ELSE IF returns = "content"
    THEN IF ~is_success(response.status)
         THEN Outcome("HTTPStatusError", NoValue,
                      <<"recv", "content", "raise_for_status", "aexit", "raise">>)
         ELSE Outcome("", PyBytes(response.content),
                      <<"recv", "content", "raise_for_status", "aexit", "return">>)
    ELSE IF json_loads(response.content) = NoValue
    THEN Outcome("JSONDecodeError", NoValue, <<"recv", "json", "aexit", "raise">>)
    ELSE IF ~is_success(response.status)
    THEN Outcome("HTTPStatusError", NoValue,
                 <<"recv", "json", "raise_for_status", "aexit", "raise">>)
    ELSE Outcome("", json_loads(response.content),
                 <<"recv", "json", "raise_for_status", "aexit", "return">>)

\* The mutant of ClientReturn in which an exception raised from the body of
\* the `async with` leaves the httpx client open.
ClientReturn_leaks_on_error(returns, response) ==
    IF "error" \in DOMAIN response
    THEN Outcome(response.error, NoValue, <<"raise">>)
    ELSE IF ~is_success(response.status)
    THEN Outcome("HTTPStatusError", NoValue, <<"recv", "raise_for_status", "raise">>)
    ELSE IF returns = "content"
    THEN Outcome("", PyBytes(response.content),
                 <<"recv", "raise_for_status", "content", "aexit", "return">>)
    ELSE IF json_loads(response.content) = NoValue
    THEN Outcome("JSONDecodeError", NoValue,
                 <<"recv", "raise_for_status", "json", "raise">>)
    ELSE Outcome("", json_loads(response.content),
                 <<"recv", "raise_for_status", "json", "aexit", "return">>)

\* What a client method does once its awaited verb ends: the transport error
\* propagates; else response.raise_for_status(), then response.json() (or
\* response.content); the `async with` block is left on every path.
ClientReturn(returns, response) ==
    IF "error" \in DOMAIN response
    THEN Outcome(response.error, NoValue, <<"aexit", "raise">>)
    ELSE IF ~is_success(response.status)
    THEN Outcome("HTTPStatusError", NoValue, <<"recv", "raise_for_status", "aexit", "raise">>)
    ELSE IF returns = "content"
    THEN Outcome("", PyBytes(response.content),
                 <<"recv", "raise_for_status", "content", "aexit", "return">>)
    ELSE IF json_loads(response.content) = NoValue
    THEN Outcome("JSONDecodeError", NoValue,
                 <<"recv", "raise_for_status", "json", "aexit", "raise">>)
    ELSE Outcome("", json_loads(response.content),
                 <<"recv", "raise_for_status", "json", "aexit", "return">>)

\* The mutant of PyLen that gives the last index instead of the length.
PyLen_last_index(v) ==
    CASE IsType(v, "list") -> Len(v.list) - 1
      [] IsType(v, "dict") -> Cardinality(DOMAIN v.dict) - 1
      [] IsType(v, "str") -> Len(v.str) - 1
      [] IsType(v, "bytes") -> Len(v.bytes) - 1

\* len(v)
PyLen(v) ==
    CASE IsType(v, "list") -> Len(v.list)
      [] IsType(v, "dict") -> Cardinality(DOMAIN v.dict)
      [] IsType(v, "str") -> Len(v.str)
      [] IsType(v, "bytes") -> Len(v.bytes)

\* str(v), kept as the value it is the text of.
StrOf(v) == [str_of |-> v]

\* The mutant of Render that returns the client's result as it is.
Render_raw(ret, v) == v

\* The value of a tool's return expression for the client result v.
Render(ret, v) ==
    IF "fstring" \in DOMAIN ret
    THEN [text |-> [i \in 1..Len(ret.fstring) |->
                      LET part == ret.fstring[i]
                      IN  IF "lit" \in DOMAIN part THEN part
                          ELSE IF part = FLen THEN Lit(ToString(PyLen(v)))
                          ELSE StrOf(v)]]
    ELSE v

\* The mutant of ToolReturn that catches the failure and returns a message.
ToolReturn_caught(ret, co) ==
    IF co.raised # ""
    THEN Outcome("", [text |-> <<Lit("Error: "), Lit(co.raised)>>], <<"tool_return">>)
    ELSE Outcome("", Render(ret, co.value), <<"tool_return">>)

\* The end of a tool body, `result = await workato_client.m(...)` then
\* `return ...`: a failure of the awaited call leaves the tool as it is.
ToolReturn(ret, co) ==
    IF co.raised # ""
    THEN Outcome(co.raised, NoValue, <<"tool_raise">>)
    ELSE Outcome("", Render(ret, co.value), <<"tool_return">>)

\* The mutant of ToolCalls in which the tool awaits its client method twice.
ToolCalls_twice(g, t, a) ==
    LET b == ToolBody(g, t, a)
    IN  <<[method |-> b.method, args |-> b.args], [method |-> b.method, args |-> b.args]>>

\* The client calls a tool body makes, in order.
ToolCalls(g, t, a) ==
    LET b == ToolBody(g, t, a)
    IN  <<[method |-> b.method, args |-> b.args]>>

----------------------------------------------------------------------------
(* The inputs the model draws from.                                        *)

\* Integer identifiers run over 1..MaxId.
MaxId == 1

Ids == {PyInt(i) : i \in 1..MaxId} \cup {PyStr("abc")}
OneId == {PyInt(1)}
Flags == {PyBool(FALSE), PyBool(TRUE)}
Payloads == {PyDict(EmptyDict), PyDict("name" :> PyStr("x"))}
Pages == {PyInt(-1), PyInt(2)}
Filters == {PyDict(EmptyDict), PyDict("by[code]" :> PyStr("US")), PyDict("page" :> PyInt(9))}

\* Keyword-argument sets: a required parameter, an optional one (which may
\* be omitted), and the combination of two sets.
Req(name, S) == {name :> v : v \in S}
Opt(name, S) == {EmptyDict} \cup {name :> v : v \in S}
X(A, B) == {x @@ y : x \in A, y \in B}

Inputs(m) ==
    CASE m = "get_recipes" -> Opt("include_tags", Flags)
      [] m \in {"get_recipe_details", "start_recipe", "stop_recipe", "delete_recipe",
                "reset_recipe_trigger", "poll_recipe_now"} -> Req("recipe_id", Ids)
      [] m = "test_recipe" ->
            X(Req("recipe_id", Ids),
              Opt("input_data", {None, PyDict(EmptyDict), PyDict("param" :> PyStr("value"))}))
      [] m = "create_recipe" -> Req("recipe_data", Payloads)
      [] m = "update_recipe" -> X(Req("recipe_id", OneId), Req("recipe_data", Payloads))
      [] m = "get_jobs" ->
            X(X(Opt("recipe_id", {PyInt(0), PyInt(1)}),
                Opt("status", {PyStr(""), PyStr("success")})),
              Opt("limit", {PyInt(0), PyInt(10)}))
      [] m = "get_job_details" -> Req("job_id", Ids)
      [] m \in {"get_folders", "get_connections"} -> {EmptyDict}
      [] m \in {"get_connection_details", "delete_connection"} -> Req("connection_id", Ids)
      [] m = "copy_recipe" ->
            X(Req("recipe_id", OneId), Opt("folder_id", {None, PyStr(""), PyStr("7")}))
      [] m = "update_recipe_connection" ->
            X(X(Req("recipe_id", OneId), Req("adapter_name", {PyStr("salesforce")})),
              Req("connection_id", {PyInt(0), PyInt(3)}))
      [] m = "get_recipe_versions" ->
            X(X(Req("recipe_id", OneId), Opt("page", Pages)), Opt("per_page", Pages))
      [] m = "get_recipe_version_details" ->
            X(Req("recipe_id", Ids), Req("version_id", OneId))
      [] m = "update_recipe_version_comment" ->
            X(X(Req("recipe_id", OneId), Req("version_id", OneId)),
              Req("comment", {PyStr(""), PyStr("fixed")}))
      [] m = "get_folder_assets" ->
            X(X(Opt("folder_id", {None, PyInt(0), PyInt(5)}), Opt("include_test_cases", Flags)),
              Opt("include_data", {PyBool(TRUE)}))
      [] m = "create_export_manifest" -> Req("export_manifest", Payloads)
      [] m = "update_export_manifest" ->
            X(Req("manifest_id", OneId), Req("export_manifest", Payloads))
      [] m \in {"get_export_manifest", "delete_export_manifest", "export_package"} ->
            Req("manifest_id", Ids)
      [] m = "import_package" ->
            X(X(X(X(Req("folder_id", OneId), Req("file_bytes", {PyBytes("PK")})),
                  Opt("restart_recipes", Flags)),
                Opt("include_tags", {PyBool(TRUE)})),
              Opt("folder_id_for_home_assets", {PyStr(""), PyStr("9")}))
      [] m \in {"get_package", "download_package"} -> Req("package_id", Ids)
      [] m = "search_custom_connectors" -> Req("title", {PyStr(""), PyStr("conn")})
      [] m \in {"get_custom_connector_code", "release_custom_connector",
                "share_custom_connector"} -> Req("connector_id", Ids)
      [] m = "generate_schema_from_json" -> Req("sample", {PyStr("{}")})
      [] m = "generate_schema_from_csv" ->
            X(Req("sample", {PyStr("a;b")}), Opt("col_sep", {None, PyStr(""), PyStr("semicolon")}))
      [] m = "create_custom_connector" -> Req("connector", Payloads)
      [] m = "update_custom_connector" -> X(Req("connector_id", OneId), Req("connector", Payloads))
      [] m = "list_connections" ->
            X(X(Opt("folder_id", {PyStr(""), PyStr("7")}),
                Opt("includes", {PyList(<<>>), PyList(<<PyStr("tags")>>)})),
              {EmptyDict,
               ("parent_id" :> PyStr("p")) @@ ("external_id" :> PyStr("e"))
               @@ ("include_runtime_connections" :> PyStr("true"))})
      [] m = "create_connection" -> Req("connection", Payloads)
      [] m = "update_connection" -> X(Req("connection_id", OneId), Req("connection", Payloads))
      [] m = "disconnect_connection" -> X(Req("connection_id", OneId), Opt("force", Flags))
      [] m = "list_lookup_tables" -> X(Opt("page", Pages), Opt("per_page", Pages))
      [] m = "list_lookup_table_rows" ->
            X(X(X(Req("lookup_table_id", OneId), Opt("page", {PyInt(2)})), Opt("per_page", {PyInt(7)})),
              Opt("filters", {None} \cup Filters))
      [] m = "lookup_table_row" -> X(Req("lookup_table_id", OneId), Req("filters", Filters))
      [] m \in {"get_lookup_table_row", "delete_lookup_table_row"} ->
            X(Req("lookup_table_id", Ids), Req("row_id", OneId))
      [] m = "add_lookup_table_row" -> X(Req("lookup_table_id", OneId), Req("data", Payloads))
      [] m = "create_lookup_table" -> Req("lookup_table", Payloads)
      [] m = "batch_delete_lookup_tables" ->
            Req("ids", {PyList(<<>>), PyList(<<PyInt(1), PyStr("abc")>>)})
      [] m = "update_lookup_table_row" ->
            X(X(Req("lookup_table_id", OneId), Req("row_id", OneId)), Req("data", Payloads))

\* The fields a caller gives a RecipeData.
RecipeFields ==
    X(X(X(Req("name", {PyStr("New Recipe")}), Req("code", {PyStr("{}")})),
        Opt("folder_id", {None, PyInt(0), PyInt(5)})),
      Opt("description", {PyStr("Test recipe")}))

\* The arguments a tool is invoked with: those of the client method it
\* mirrors, but for the three tools that take a request model.
ToolInputs(t) ==
    CASE t = "list_recipes" -> Inputs("get_recipes")
      [] t = "get_recipe" -> Inputs("get_recipe_details")
      [] t = "test_recipe" ->
            {"input" :> PyDict(f) : f \in Inputs("test_recipe")}
      [] t = "create_recipe" -> {"recipe" :> PyDict(f) : f \in RecipeFields}
      [] t = "update_recipe" ->
            X(Req("recipe_id", OneId), {"recipe" :> PyDict(f) : f \in RecipeFields})
      [] OTHER -> Inputs(t)

\* What the transport may end a request with: a response (its status and its
\* body) or a transport error.
Response(status, content) == [status |-> status, content |-> content]

Responses ==
    {Response(200, "{\"id\": 1}"), Response(200, "[{\"id\": 1}, {\"id\": 2}]"),
     Response(200, "[]"), Response(200, "PK"), Response(302, ""), Response(404, "{\"id\": 1}"),
     [error |-> "ConnectError"]}

Environs ==
    {EmptyDict, TokenVar :> "", TokenVar :> "tokE",
     (TokenVar :> "tokE") @@ (BaseVar :> "https://env.example/api"),
     (TokenVar :> "tokE") @@ (BaseVar :> "")}

DotenvFiles == {EmptyDict, (TokenVar :> "tokF") @@ (BaseVar :> "https://file.example/api")}

\* The (api_token, base_url) arguments a caller constructs the client with.
CtorArgs ==
    {<<None, None>>, <<PyStr(""), None>>, <<PyStr("tokA"), None>>,
     <<PyStr("tokA"), PyStr("https://arg.example/api")>>}

----------------------------------------------------------------------------
(* The state machine.                                                      *)

\* Invocations that may be in flight at once.
MaxInFlight == 2
Slots == 1..MaxInFlight

Owners == {Groups[i] : i \in 1..Len(Groups)} \cup {"direct"}
NoClient == [absent |-> TRUE]
NoAttempt == [absent |-> TRUE]
Pending == [pending |-> TRUE]

\* The record of a construction: made is what WorkatoClient_init gave.
Attempt(api_token, base_url, made) ==
    [api_token |-> api_token, base_url |-> base_url, environ |-> made.environ,
     raised |-> made.raised]
Idle == [pc |-> "idle"]
At(at, n) == [at |-> at, n |-> n]

AllIdle == \A s \in Slots : inv[s].pc = "idle"

\* An invocation as it starts: nothing called, nothing sent.  Two fields
\* record the moment it starts at: whether an import_package is in flight
\* beside it, and whether an invocation that failed came before it.
Fresh(layer, owner, name, given, ret, todo) ==
    [pc |-> "running", layer |-> layer, owner |-> owner, name |-> name, given |-> given,
     ret |-> ret, todo |-> todo, calls |-> <<>>, returns |-> "", sent |-> <<>>,
     responses |-> <<>>, results |-> <<>>, outcome |-> Pending,
     events |-> IF layer = "tool" THEN <<"tool_start">> ELSE <<>>,
     beside_import |-> \E x \in Slots : inv[x].pc = "awaiting" /\ inv[x].name = "import_package",
     after_failure |-> \E x \in Slots : inv[x].pc = "done" /\ inv[x].outcome.raised # ""]

\* The invocation r ends: its client call ended with the outcome co.
Finish(r, co) ==
    LET out == IF r.layer = "tool" THEN ToolReturn(r.ret, co) ELSE Outcome(co.raised, co.value, <<>>)
    IN  [r EXCEPT !.pc = "done", !.results = Append(@, [raised |-> co.raised, value |-> co.value]),
                  !.outcome = [raised |-> out.raised, value |-> out.value],
                  !.events = @ \o co.events \o out.events]

\* The invocation r makes its next client call on the object self, up to the
\* await of the httpx verb: the request is on the transport, or the call
\* raised before anything was sent.
Await(r, self) ==
    LET d == Head(r.todo)
        c == ClientMethod(d.method, self, d.args)
        r1 == [r EXCEPT !.todo = Tail(@), !.calls = Append(@, d), !.returns = c.returns,
                        !.events = @ \o <<"call", "aenter">>]
    IN  IF Accepts(c)
        THEN [self |-> c.self,
              inv |-> [r1 EXCEPT !.pc = "awaiting", !.sent = Append(@, Request(c)),
                                 !.events = @ \o <<"send">>]]
        ELSE [self |-> c.self,
              inv |-> Finish(r1, Outcome("TypeError", NoValue, <<"aexit", "raise">>))]

\* The mutant of Resume in which a failed call drops the client's headers.
Resume_poisoned(r, self, response) ==
    LET co == ClientReturn(r.returns, response)
        r1 == [r EXCEPT !.responses = Append(@, response)]
    IN  IF co.raised = "" /\ r.todo # <<>>
        THEN Await([r1 EXCEPT !.results = Append(@, [raised |-> co.raised, value |-> co.value]),
                              !.events = @ \o co.events], self)
        ELSE [self |-> IF co.raised = "" THEN self ELSE [self EXCEPT !.headers = PyDict(EmptyDict)],
              inv |-> Finish(r1, co)]

\* The invocation r resumes with the response to its request.
Resume(r, self, response) ==
    LET co == ClientReturn(r.returns, response)
        r1 == [r EXCEPT !.responses = Append(@, response)]
    IN  IF co.raised = "" /\ r.todo # <<>>
        THEN Await([r1 EXCEPT !.results = Append(@, [raised |-> co.raised, value |-> co.value]),
                              !.events = @ \o co.events], self)
        ELSE [self |-> self, inv |-> Finish(r1, co)]

Init ==
    /\ main \in {"server", "client"}
    /\ pc = IF main = "server" THEN At("import", 1) ELSE At("construct", 0)
    /\ environ \in Environs
    /\ dotenv \in DotenvFiles
    /\ clients = [o \in Owners |-> NoClient]
    /\ built = [o \in Owners |-> NoClient]
    /\ attempts = [o \in Owners |-> NoAttempt]
    /\ registry = EmptyDict
    /\ inv = [s \in Slots |-> Idle]

\* server.py lines 7-11: importing a tools module runs its
\* `workato_client = WorkatoClient()`.
ImportTools ==
    /\ main = "server"
    /\ pc.at = "import"
    /\ LET g == Groups[pc.n]
           made == WorkatoClient_init(None, None, environ, dotenv)
       IN  /\ environ' = made.environ
           /\ attempts' = [attempts EXCEPT ![g] = Attempt(None, None, made)]
           /\ IF made.raised # ""
              THEN /\ pc' = At("crashed", 0)
                   /\ UNCHANGED <<clients, built>>
              ELSE /\ clients' = [clients EXCEPT ![g] = made.self]
                   /\ built' = [built EXCEPT ![g] = made.self]
                   /\ pc' = IF pc.n < Len(Groups) THEN At("import", pc.n + 1)
                            ELSE At("load_dotenv", 0)
    /\ UNCHANGED <<main, dotenv, registry, inv>>

\* server.py line 15
LoadDotenv ==
    /\ main = "server"
    /\ pc.at = "load_dotenv"
    /\ environ' = load_dotenv(environ, dotenv)
    /\ pc' = At("validate", 0)
    /\ UNCHANGED <<main, dotenv, clients, built, attempts, registry, inv>>

required_env_vars == <<TokenVar, BaseVar>>

missing_vars(env) ==
    SelectSeq(required_env_vars, LAMBDA var : ~Truthy(getenv(env, var, None)))

\* server.py lines 32-35
ValidateEnv ==
    /\ main = "server"
    /\ pc.at = "validate"
    /\ pc' = IF missing_vars(environ) # <<>> THEN At("crashed", 0) ELSE At("register", 1)
    /\ UNCHANGED <<main, environ, dotenv, clients, built, attempts, registry, inv>>

\* The mutant of add_tools in which a group takes the place of the tools
\* registered before it.
add_tools_replace(reg, g) == [t \in GroupTools(g) |-> g]

\* register_<g>_tools(mcp): each @mcp.tool() of the group is added to the
\* tools the server holds; a name held already keeps its first tool.
add_tools(reg, g) == reg @@ [t \in GroupTools(g) |-> g]

\* server.py lines 38-42: one register_*_tools(mcp) call.
RegisterGroup ==
    /\ main = "server"
    /\ pc.at = "register"
    /\ LET g == Groups[pc.n]
       IN  registry' = add_tools(registry, g)
    /\ pc' = IF pc.n < Len(Groups) THEN At("register", pc.n + 1) ELSE At("serving", 0)
    /\ UNCHANGED <<main, environ, dotenv, clients, built, attempts, inv>>

\* A caller constructs WorkatoClient(api_token, base_url).
Construct(api_token, base_url) ==
    /\ main = "client"
    /\ pc.at = "construct"
    /\ LET made == WorkatoClient_init(api_token, base_url, environ, dotenv)
       IN  /\ environ' = made.environ
           /\ attempts' = [attempts EXCEPT !["direct"] = Attempt(api_token, base_url, made)]
           /\ IF made.raised # ""
              THEN /\ pc' = At("crashed", 0)
                   /\ UNCHANGED <<clients, built>>
              ELSE /\ clients' = [clients EXCEPT !["direct"] = made.self]
                   /\ built' = [built EXCEPT !["direct"] = made.self]
                   /\ pc' = At("ready", 0)
    /\ UNCHANGED <<main, dotenv, registry, inv>>

\* The runtime invokes the registered tool t with the arguments a: the tool
\* body runs up to the await inside the client method it calls.
ToolInvoke(s, t, a) ==
    /\ main = "server"
    /\ pc.at = "serving"
    /\ t \in DOMAIN registry
    /\ LET g == registry[t]
           r == Fresh("tool", g, t, a, ToolBody(g, t, a).ret, ToolCalls(g, t, a))
           go == Await(r, clients[g])
       IN  /\ inv' = [inv EXCEPT ![s] = go.inv]
           /\ clients' = [clients EXCEPT ![g] = go.self]
    /\ UNCHANGED <<main, pc, environ, dotenv, built, attempts, registry>>

\* A caller awaits the client method m with the arguments a.
ClientInvoke(s, m, a) ==
    /\ main = "client"
    /\ pc.at = "ready"
    /\ LET r == Fresh("client", "direct", m, a, NoValue, <<[method |-> m, args |-> a]>>)
           go == Await(r, clients["direct"])
       IN  /\ inv' = [inv EXCEPT ![s] = go.inv]
           /\ clients' = [clients EXCEPT !["direct"] = go.self]
    /\ UNCHANGED <<main, pc, environ, dotenv, built, attempts, registry>>

\* The transport ends the awaited request with a response or an error, and
\* the invocation runs on to its end.
Complete(s, response) ==
    /\ inv[s].pc = "awaiting"
    /\ LET go == Resume(inv[s], clients[inv[s].owner], response)
       IN  /\ inv' = [inv EXCEPT ![s] = go.inv]
           /\ clients' = [clients EXCEPT ![inv[s].owner] = go.self]
    /\ UNCHANGED <<main, pc, environ, dotenv, built, attempts, registry>>

\* The caller has the invocation's outcome; the slot is free again.
Collect(s) ==
    /\ inv[s].pc = "done"
    /\ inv' = [inv EXCEPT ![s] = Idle]
    /\ UNCHANGED <<main, pc, environ, dotenv, clients, built, attempts, registry>>

\* A free slot takes the next invocation: the lowest one.
Free(s) == inv[s].pc = "idle" /\ \A x \in Slots : x < s => inv[x].pc # "idle"

InvokeTool ==
    /\ main = "server"
    /\ pc.at = "serving"
    /\ \E s \in Slots, t \in DOMAIN registry :
          /\ Free(s)
          /\ \E a \in ToolInputs(t) : ToolInvoke(s, t, a)

InvokeClient ==
    /\ main = "client"
    /\ pc.at = "ready"
    /\ \E s \in Slots, m \in ClientMethods :
          /\ Free(s)
          /\ \E a \in Inputs(m) : ClientInvoke(s, m, a)

\* The specification runs the invocations one at a time, as a caller that
\* awaits each before it makes the next.
Next ==
    \/ ImportTools
    \/ LoadDotenv
    \/ ValidateEnv
    \/ RegisterGroup
    \/ \E args \in CtorArgs : Construct(args[1], args[2])
    \/ AllIdle /\ InvokeTool
    \/ AllIdle /\ InvokeClient
    \/ \E s \in Slots, response \in Responses : Complete(s, response)
    \/ \E s \in Slots : Collect(s)

Spec == Init /\ [][Next]_vars

----------------------------------------------------------------------------
(* Invocations in flight together: asyncio runs a coroutine up to its next *)
(* await, so a caller that gathers several invocations has each run to the *)
(* await of its httpx verb before the next one starts, and each resumes    *)
(* when its response arrives, in any order.                                *)

\* The operations the concurrent runs draw from, and their arguments.
ConcMethods == {"import_package", "list_lookup_table_rows", "get_recipes"}

ConcInputs(m) ==
    CASE m = "import_package" ->
            {("folder_id" :> PyInt(1)) @@ ("file_bytes" :> PyBytes("PK"))}
      [] m = "list_lookup_table_rows" ->
            {("lookup_table_id" :> PyInt(1)) @@ ("filters" :> PyDict("by[code]" :> PyStr("US")))}
      [] m = "get_recipes" -> {EmptyDict}

\* What the transport ends the concurrent requests with.
ConcResponses ==
    {Response(200, "{\"id\": 1}"), Response(404, "{\"id\": 1}"), [error |-> "ConnectError"]}

\* The (api_token, base_url) arguments of the caller that gathers.
ConcCtorArgs == {<<PyStr("tokA"), None>>}

InitConc ==
    /\ Init
    /\ main = "client"
    /\ environ = (TokenVar :> "tokE") @@ (BaseVar :> "https://env.example/api")
    /\ dotenv = EmptyDict

\* A client method is awaited while others may be in flight.
InvokeClientBeside ==
    /\ main = "client"
    /\ pc.at = "ready"
    /\ \E s \in Slots, m \in ConcMethods :
          /\ Free(s)
          /\ \E a \in ConcInputs(m) : ClientInvoke(s, m, a)

NextConc ==
    \/ \E args \in ConcCtorArgs : Construct(args[1], args[2])
    \/ InvokeClientBeside
    \/ \E s \in Slots, response \in ConcResponses : Complete(s, response)
    \/ \E s \in Slots : Collect(s)

SpecConc == InitConc /\ [][NextConc]_vars

----------------------------------------------------------------------------
(* Properties of the client and of the tools.                              *)

\* The number of times e occurs in the sequence q.
Count(q, e) == Cardinality({i \in DOMAIN q : q[i] = e})

\* The query string and the keys of the JSON body of a request.
Query(req) == IF "params" \in DOMAIN req.kwargs THEN req.kwargs["params"].dict ELSE EmptyDict
BodyKeys(req) ==
    IF "json" \in DOMAIN req.kwargs /\ IsType(req.kwargs["json"], "dict")
    THEN DOMAIN req.kwargs["json"].dict
    ELSE {}

\* A response that came back with a status outside 2xx.
IsErrorStatus(response) == "status" \in DOMAIN response /\ ~is_success(response.status)

\* C1: a client operation that has ended, with a value or with a failure,
\* has issued exactly one HTTP request, never zero and never more than one;
\* while it waits for its response that one request is the only one issued.
C1_ExactlyOneRequest ==
    \A s \in Slots :
        inv[s].pc \in {"awaiting", "done"} => Len(inv[s].sent) = 1

\* C2: when the response to a client operation's request has a status
\* outside 2xx, the operation has failed: it raised, it returned no value,
\* the body was never decoded (neither response.json() nor response.content
\* was read), and that request is the only one issued.
C2_ErrorStatusFails ==
    \A s \in Slots :
        inv[s].pc # "idle" =>
            \A i \in DOMAIN inv[s].responses :
                IsErrorStatus(inv[s].responses[i]) =>
                    /\ inv[s].pc = "done"
                    /\ i = Len(inv[s].responses)
                    /\ Len(inv[s].results) = i
                    /\ inv[s].results[i].raised = "HTTPStatusError"
                    /\ inv[s].results[i].value = NoValue
                    /\ inv[s].outcome.raised = "HTTPStatusError"
                    /\ inv[s].outcome.value = NoValue
                    /\ Count(inv[s].events, "json") = 0
                    /\ Count(inv[s].events, "content") = 0
                    /\ Len(inv[s].sent) = i
                    /\ Count(inv[s].events, "send") = i

\* A client operation got a 404 and ended.
C2_Witness ==
    \E s \in Slots :
        /\ inv[s].pc = "done"
        /\ inv[s].layer = "client"
        /\ inv[s].responses = <<Response(404, "{\"id\": 1}")>>
        /\ inv[s].outcome.raised = "HTTPStatusError"

\* C3: a construction given no api_token (None or the empty string) while
\* WORKATO_API_TOKEN is unset or empty in the environment the constructor
\* reads raised the configuration error, left no client object, and the
\* program stopped there with no invocation started, so no HTTP request
\* issued.
C3_NoCredentialFails ==
    \A o \in Owners :
        (/\ attempts[o] # NoAttempt
         /\ ~Truthy(attempts[o].api_token)
         /\ ~Truthy(getenv(attempts[o].environ, TokenVar, None)))
        => /\ attempts[o].raised = "ValueError"
           /\ clients[o] = NoClient
           /\ built[o] = NoClient
           /\ pc.at = "crashed"
           /\ AllIdle

\* WorkatoClient(api_token="") with WORKATO_API_TOKEN="" raised.
C3_Witness ==
    /\ attempts["direct"] # NoAttempt
    /\ attempts["direct"].api_token = PyStr("")
    /\ TokenVar \in DOMAIN attempts["direct"].environ
    /\ attempts["direct"].environ[TokenVar] = ""
    /\ attempts["direct"].raised = "ValueError"
    /\ pc.at = "crashed"

\* The optional parameters of the operations the omission rule names, and
\* the key each is sent under.
Omittable(m) ==
    CASE m = "get_jobs" -> {"recipe_id", "status", "limit"}
      [] m = "copy_recipe" -> {"folder_id"}
      [] m = "list_connections" ->
            {"folder_id", "parent_id", "external_id", "include_runtime_connections", "includes"}
      [] m = "get_folder_assets" -> {"folder_id", "include_test_cases", "include_data"}
      [] m = "generate_schema_from_csv" -> {"col_sep"}
      [] m = "import_package" -> {"restart_recipes", "include_tags", "folder_id_for_home_assets"}
      [] m = "test_recipe" -> {"input_data"}
      [] OTHER -> {}

KeyOf(p) == IF p = "includes" THEN "includes[]" ELSE p

\* The requests of the client operations called directly.
DirectRequests == {s \in Slots : inv[s].pc # "idle" /\ inv[s].layer = "client" /\ inv[s].sent # <<>>}

\* C4 as stated: an optional parameter the caller omitted has no key in the
\* query string nor in the request body, for get_jobs, copy_recipe,
\* list_connections, get_folder_assets, generate_schema_from_csv,
\* import_package (restart_recipes, include_tags, folder_id_for_home_assets)
\* and test_recipe (input_data).
C4_OmittedNeverSent ==
    \A s \in DirectRequests :
        \A p \in Omittable(inv[s].name) \ DOMAIN inv[s].given :
            KeyOf(p) \notin DOMAIN Query(inv[s].sent[1]) \cup BodyKeys(inv[s].sent[1])

\* C4: an optional parameter the caller omitted has no key in the query
\* string nor in the request body, for get_jobs, copy_recipe (which then
\* sends no body), list_connections, get_folder_assets,
\* generate_schema_from_csv and import_package's folder_id_for_home_assets;
\* import_package's restart_recipes and include_tags, omitted, are in the
\* query string with their default as the string "false"; test_recipe with
\* input_data omitted sends the empty JSON object as its body.
C4_OmittedOrDefault ==
    \A s \in DirectRequests :
        LET m == inv[s].name
            req == inv[s].sent[1]
        IN  \A p \in Omittable(m) \ DOMAIN inv[s].given :
                IF m = "import_package" /\ p \in {"restart_recipes", "include_tags"}
                THEN p \in DOMAIN Query(req) /\ Query(req)[p] = PyStr("false")
                ELSE IF m = "test_recipe"
                THEN req.kwargs["json"] = PyDict(EmptyDict)
                ELSE /\ KeyOf(p) \notin DOMAIN Query(req) \cup BodyKeys(req)
                     /\ m = "copy_recipe" => req.kwargs["json"] = None

\* import_package(folder_id, file_bytes) with nothing else given is on the
\* transport.
C4_Witness ==
    \E s \in DirectRequests :
        /\ inv[s].name = "import_package"
        /\ DOMAIN inv[s].given = {"folder_id", "file_bytes"}
        /\ Query(inv[s].sent[1]) =
               ("restart_recipes" :> PyStr("false")) @@ ("include_tags" :> PyStr("false"))

\* The operations that nest their payload, the key they nest it under, and
\* the parameter that carries the payload.
EnvelopeKey(m) ==
    CASE m \in {"create_recipe", "update_recipe"} -> "recipe"
      [] m \in {"create_export_manifest", "update_export_manifest"} -> "export_manifest"
      [] m = "create_lookup_table" -> "lookup_table"
      [] m \in {"add_lookup_table_row", "update_lookup_table_row"} -> "data"

PayloadOf(m) ==
    CASE m \in {"create_recipe", "update_recipe"} -> "recipe_data"
      [] m \in {"create_export_manifest", "update_export_manifest"} -> "export_manifest"
      [] m = "create_lookup_table" -> "lookup_table"
      [] m \in {"add_lookup_table_row", "update_lookup_table_row"} -> "data"

EnvelopeOps ==
    {"create_recipe", "update_recipe", "create_export_manifest", "update_export_manifest",
     "create_lookup_table", "add_lookup_table_row", "update_lookup_table_row"}

\* C5: the JSON body of a request of create_recipe, update_recipe,
\* create_export_manifest, update_export_manifest, create_lookup_table,
\* add_lookup_table_row or update_lookup_table_row is exactly {key: p}: one
\* key, the operation's envelope key, over the payload p it was called with.
C5_Envelope ==
    \A s \in Slots :
        inv[s].pc # "idle" =>
            \A i \in DOMAIN inv[s].sent :
                LET d == inv[s].calls[i]
                IN  d.method \in EnvelopeOps =>
                        /\ "json" \in DOMAIN inv[s].sent[i].kwargs
                        /\ inv[s].sent[i].kwargs["json"] =
                               PyDict(EnvelopeKey(d.method) :> d.args[PayloadOf(d.method)])

\* create_recipe({"name": "x"}) sent {"recipe": {"name": "x"}}.
C5_Witness ==
    \E s \in Slots :
        /\ inv[s].pc # "idle"
        /\ inv[s].layer = "client"
        /\ inv[s].name = "create_recipe"
        /\ inv[s].sent # <<>>
        /\ inv[s].sent[1].kwargs["json"] = PyDict("recipe" :> PyDict("name" :> PyStr("x")))

\* C6: download_package, on a 2xx response, returned the bytes of the body
\* as they came, response.json() never called, whatever the body (valid
\* JSON included); the download_package tool returned exactly the bytes the
\* client returned, with no label and no formatting.
C6_RawBytes ==
    \A s \in Slots :
        (/\ inv[s].pc = "done"
         /\ inv[s].calls[1].method = "download_package"
         /\ inv[s].responses # <<>>
         /\ "status" \in DOMAIN inv[s].responses[1]
         /\ is_success(inv[s].responses[1].status))
        => /\ inv[s].results[1].raised = ""
           /\ inv[s].results[1].value = PyBytes(inv[s].responses[1].content)
           /\ Count(inv[s].events, "json") = 0
           /\ inv[s].outcome.raised = ""
           /\ inv[s].outcome.value = inv[s].results[1].value

\* The download_package tool returned the bytes of a body that is valid JSON.
C6_Witness ==
    \E s \in Slots :
        /\ inv[s].pc = "done"
        /\ inv[s].layer = "tool"
        /\ inv[s].name = "download_package"
        /\ inv[s].responses = <<Response(200, "{\"id\": 1}")>>
        /\ inv[s].outcome.value = PyBytes("{\"id\": 1}")

\* C7: every request issued carries exactly two headers: Authorization,
\* "Bearer " followed by the api_token the client was constructed with, and
\* Content-Type, "application/json" but for import_package's request, which
\* carries "application/octet-stream" with the same Authorization.
C7_Headers ==
    \A s \in Slots :
        inv[s].pc # "idle" =>
            \A i \in DOMAIN inv[s].sent :
                LET headers == inv[s].sent[i].kwargs["headers"].dict
                IN  /\ DOMAIN headers = {"Authorization", "Content-Type"}
                    /\ headers["Authorization"] =
                           PyStr("Bearer " \o built[inv[s].owner].api_token.str)
                    /\ headers["Content-Type"] =
                           IF inv[s].calls[i].method = "import_package"
                           THEN PyStr("application/octet-stream")
                           ELSE PyStr("application/json")

\* import_package's request is on the transport with the binary content
\* type and the token of the constructor's argument.
C7_Witness ==
    \E s \in Slots :
        /\ inv[s].pc # "idle"
        /\ inv[s].name = "import_package"
        /\ inv[s].sent # <<>>
        /\ inv[s].sent[1].kwargs["headers"].dict =
               ("Authorization" :> PyStr("Bearer tokA"))
               @@ ("Content-Type" :> PyStr("application/octet-stream"))

\* C8: a constructed client's api_token, base_url and shared headers are, in
\* every state, the ones it had when its construction ended, import_package
\* included: its Content-Type goes into the headers of the call only.
C8_Immutable ==
    \A o \in Owners :
        /\ clients[o] = built[o]
        /\ built[o] # NoClient =>
               clients[o].headers.dict["Content-Type"] = PyStr("application/json")

\* import_package has ended and the client's shared headers still say JSON.
C8_Witness ==
    \E s \in Slots :
        /\ inv[s].pc = "done"
        /\ inv[s].name = "import_package"
        /\ inv[s].sent # <<>>
        /\ inv[s].sent[1].kwargs["headers"].dict["Content-Type"] = PyStr("application/octet-stream")
        /\ clients[inv[s].owner] = built[inv[s].owner]
        /\ clients[inv[s].owner].headers.dict["Content-Type"] = PyStr("application/json")

\* The event a tool ends with.
ToolEnds == {"tool_return", "tool_raise"}

\* C9: a tool invocation makes exactly one client call, once: the call
\* comes right after the tool starts, and the tool ends only after that
\* call has returned or raised, without another call.
C9_OneClientCall ==
    \A s \in Slots :
        (inv[s].pc # "idle" /\ inv[s].layer = "tool") =>
            LET e == inv[s].events
            IN  /\ Len(inv[s].calls) = 1
                /\ Count(e, "call") = 1
                /\ Count(e, "tool_start") = 1
                /\ e[1] = "tool_start"
                /\ e[2] = "call"
                /\ inv[s].pc = "awaiting" => \A i \in DOMAIN e : e[i] \notin ToolEnds
                /\ inv[s].pc = "done" =>
                       /\ e[Len(e)] \in ToolEnds
                       /\ e[Len(e) - 1] \in {"return", "raise"}
                       /\ \A i \in 1..(Len(e) - 1) : e[i] \notin ToolEnds

\* The get_recipe tool called get_recipe_details once and returned.
C9_Witness ==
    \E s \in Slots :
        /\ inv[s].pc = "done"
        /\ inv[s].layer = "tool"
        /\ inv[s].name = "get_recipe"
        /\ inv[s].calls = <<[method |-> "get_recipe_details", args |-> inv[s].calls[1].args]>>
        /\ inv[s].events[Len(inv[s].events)] = "tool_return"

\* C10: when the client call of a tool invocation failed, the invocation
\* failed with that same failure at its boundary: no value returned (no
\* formatted string), and no client call after the failed one.
C10_FailurePropagates ==
    \A s \in Slots :
        (/\ inv[s].pc = "done"
         /\ inv[s].layer = "tool"
         /\ inv[s].results[Len(inv[s].results)].raised # "")
        => /\ inv[s].outcome.raised = inv[s].results[Len(inv[s].results)].raised
           /\ inv[s].outcome.value = NoValue
           /\ inv[s].events[Len(inv[s].events)] = "tool_raise"
           /\ Len(inv[s].calls) = Len(inv[s].results)
           /\ Count(inv[s].events, "call") = 1

\* A tool whose client call got a 404 ended with HTTPStatusError.
C10_Witness ==
    \E s \in Slots :
        /\ inv[s].pc = "done"
        /\ inv[s].layer = "tool"
        /\ inv[s].responses # <<>>
        /\ IsErrorStatus(inv[s].responses[1])
        /\ inv[s].outcome.raised = "HTTPStatusError"

\* The client method the registered tool t delegates to.
Delegate(t) ==
    ToolBody(registry[t], t, CHOOSE a \in ToolInputs(t) : TRUE).method

\* The registered tools that delegate to the client method m.
ToolsOf(m) == {t \in DOMAIN registry : Delegate(t) = m}

\* C11: once server.py has registered its five groups, every public method
\* of WorkatoClient (get_jobs, get_job_details, get_folders, get_connections
\* and get_connection_details among them) is the delegate of exactly one
\* registered tool.
C11_OneToolPerMethod ==
    pc.at = "serving" => \A m \in ClientMethods : Cardinality(ToolsOf(m)) = 1

\* C12: the server serves a "list jobs" tool, one that delegates to
\* get_jobs; invoked with recipe_id, status and limit all supplied and
\* truthy it issues one GET to <base_url>/jobs whose query parameters are
\* exactly the three supplied values, and on success its result string holds
\* the count and the list of the job records.
C12_ListJobsTool ==
    pc.at = "serving" =>
        /\ ToolsOf("get_jobs") # {}
        /\ \A s \in Slots :
               (/\ inv[s].pc # "idle"
                /\ inv[s].layer = "tool"
                /\ inv[s].calls[1].method = "get_jobs"
                /\ \A k \in {"recipe_id", "status", "limit"} :
                       k \in DOMAIN inv[s].given /\ Truthy(inv[s].given[k]))
               => /\ Len(inv[s].sent) = 1
                  /\ inv[s].sent[1].verb = "get"
                  /\ inv[s].sent[1].url = Fmt(built[inv[s].owner].base_url) \o "/jobs"
                  /\ Query(inv[s].sent[1]) =
                         [k \in {"recipe_id", "status", "limit"} |-> inv[s].given[k]]
                  /\ (inv[s].pc = "done" /\ inv[s].outcome.raised = "") =>
                         /\ "text" \in DOMAIN inv[s].outcome.value
                         /\ \E i, j \in DOMAIN inv[s].outcome.value.text :
                                /\ inv[s].outcome.value.text[i] =
                                       Lit(ToString(PyLen(inv[s].results[1].value)))
                                /\ inv[s].outcome.value.text[j] = StrOf(inv[s].results[1].value)

\* The tool invocations of the tool t.
ToolRuns(t) == {s \in Slots : inv[s].pc # "idle" /\ inv[s].layer = "tool" /\ inv[s].name = t}

\* A tool invocation that ended with its client call's value.
Returned(s) == inv[s].pc = "done" /\ inv[s].outcome.raised = ""

\* C13: the get_recipe tool calls get_recipe_details exactly once with the
\* recipe id as its only argument, and for every value r the call returns
\* the tool returns the string made of the label "Recipe details:" and two
\* newlines followed by the text of r, r unmodified.
C13_GetRecipe ==
    \A s \in ToolRuns("get_recipe") :
        /\ inv[s].calls =
               <<[method |-> "get_recipe_details",
                  args |-> ("recipe_id" :> inv[s].given["recipe_id"])]>>
        /\ Returned(s) =>
               /\ inv[s].results[1].value = json_loads(inv[s].responses[1].content)
               /\ inv[s].outcome.value =
                      [text |-> <<Lit("Recipe details:\n\n"), StrOf(inv[s].results[1].value)>>]
               /\ SubSeq(inv[s].outcome.value.text[1].lit, 1, 14) = "Recipe details"

\* get_recipe("abc") returned the text of {"id": 1} under its label.
C13_Witness ==
    \E s \in ToolRuns("get_recipe") :
        /\ Returned(s)
        /\ inv[s].given["recipe_id"] = PyStr("abc")
        /\ inv[s].outcome.value.text[2] = StrOf(PyDict("id" :> PyInt(1)))

\* C14: the list_recipes tool invoked without arguments calls get_recipes
\* exactly once with include_tags=False, and for every list of N records
\* the call returns the tool returns "Found N recipes:" and two newlines
\* followed by the text of the list, N the number of records.
C14_ListRecipes ==
    \A s \in ToolRuns("list_recipes") :
        inv[s].given = EmptyDict =>
            /\ inv[s].calls =
                   <<[method |-> "get_recipes", args |-> ("include_tags" :> PyBool(FALSE))]>>
            /\ (Returned(s) /\ IsType(inv[s].results[1].value, "list")) =>
                   inv[s].outcome.value =
                       [text |-> <<Lit("Found "),
                                   Lit(ToString(Len(inv[s].results[1].value.list))),
                                   Lit(" recipes:\n\n"),
                                   StrOf(inv[s].results[1].value)>>]

\* list_recipes() got two records and returned "Found 2 recipes:...".
C14_Witness ==
    \E s \in ToolRuns("list_recipes") :
        /\ Returned(s)
        /\ inv[s].given = EmptyDict
        /\ inv[s].results[1].value = PyList(<<PyDict("id" :> PyInt(1)), PyDict("id" :> PyInt(2))>>)
        /\ inv[s].outcome.value.text[2] = Lit("2")

\* C15: the test_recipe tool makes exactly one client call,
\* test_recipe(recipe_id=input.recipe_id, input_data=input.input_data), with
\* input_data None when the input has none, and on success returns
\* "Test recipe result: " followed by the text of the client's result.
C15_TestRecipe ==
    \A s \in ToolRuns("test_recipe") :
        LET input == inv[s].given["input"].dict
        IN  /\ inv[s].calls =
                   <<[method |-> "test_recipe",
                      args |-> ("recipe_id" :> input["recipe_id"])
                               @@ ("input_data" :> IF "input_data" \in DOMAIN input
                                                   THEN input["input_data"] ELSE None)]>>
            /\ Returned(s) =>
                   inv[s].outcome.value =
                       [text |-> <<Lit("Test recipe result: "), StrOf(inv[s].results[1].value)>>]

\* test_recipe(TestRecipeInput(recipe_id=1)) called the client with
\* input_data=None and returned.
C15_Witness ==
    \E s \in ToolRuns("test_recipe") :
        /\ Returned(s)
        /\ DOMAIN inv[s].given["input"].dict = {"recipe_id"}
        /\ inv[s].calls[1].args["input_data"] = None

\* The fields of a RecipeData the caller supplied with a value.
Supplied(recipe) == {f \in DOMAIN recipe : recipe[f] # None}

\* C16: the create_recipe tool calls the client's create_recipe exactly
\* once with a mapping that holds name and code as supplied and, of
\* folder_id and description, exactly those supplied with a value (a field
\* not supplied, or supplied as None, has no key), and on success returns
\* "Created recipe: " followed by the text of the client's result.
C16_CreateRecipe ==
    \A s \in ToolRuns("create_recipe") :
        LET recipe == inv[s].given["recipe"].dict
        IN  /\ Len(inv[s].calls) = 1
            /\ inv[s].calls[1].method = "create_recipe"
            /\ DOMAIN inv[s].calls[1].args = {"recipe_data"}
            /\ DOMAIN inv[s].calls[1].args["recipe_data"].dict = Supplied(recipe)
            /\ {"name", "code"} \subseteq Supplied(recipe)
            /\ \A f \in Supplied(recipe) :
                   inv[s].calls[1].args["recipe_data"].dict[f] = recipe[f]
            /\ Returned(s) =>
                   inv[s].outcome.value =
                       [text |-> <<Lit("Created recipe: "), StrOf(inv[s].results[1].value)>>]

\* create_recipe(RecipeData(name, code, folder_id=0)) sent folder_id 0 and
\* no description.
C16_Witness ==
    \E s \in ToolRuns("create_recipe") :
        /\ Returned(s)
        /\ DOMAIN inv[s].given["recipe"].dict = {"name", "code", "folder_id"}
        /\ inv[s].calls[1].args["recipe_data"].dict =
               ("name" :> PyStr("New Recipe")) @@ ("code" :> PyStr("{}"))
               @@ ("folder_id" :> PyInt(0))

\* The last n characters of the string str.
Suffix(str, n) == SubSeq(str, Len(str) - n + 1, Len(str))

\* The label of the tool t: the literal its return string starts with,
\* whatever the arguments.
LabelOf(s) ==
    ToolBody(inv[s].owner, inv[s].name, CHOOSE a \in ToolInputs(inv[s].name) : TRUE).ret.fstring[1].lit

\* The result of the tool invocation s is "<Label>: <value>": the tool's
\* label, which ends with a colon and one space, then the text of the
\* client's result.
LabelColonValue(s) ==
    /\ "text" \in DOMAIN inv[s].outcome.value
    /\ inv[s].outcome.value.text = <<Lit(LabelOf(s)), StrOf(inv[s].results[1].value)>>
    /\ Len(LabelOf(s)) > 2
    /\ Suffix(LabelOf(s), 2) = ": "

ToolsReturned == {s \in Slots : inv[s].pc # "idle" /\ inv[s].layer = "tool" /\ Returned(s)}

\* C17 as stated: every tool other than download_package, list_recipes and
\* get_recipe included, returns "<Label>: <value>".
C17_AllLabelColonValue ==
    \A s \in ToolsReturned : inv[s].name # "download_package" => LabelColonValue(s)

\* C17: every tool other than download_package, list_recipes and get_recipe
\* returns "<Label>: <value>", a fixed per-tool label ending with a colon
\* and a single space, then the text of the client's result; get_recipe
\* returns "Recipe details:", two newlines and the text of the result;
\* list_recipes returns "Found N recipes:", two newlines and the text of the
\* result, N its length.
C17_LabelColonValue ==
    \A s \in ToolsReturned :
        CASE inv[s].name = "download_package" -> TRUE
          [] inv[s].name = "get_recipe" ->
                inv[s].outcome.value =
                    [text |-> <<Lit("Recipe details:\n\n"), StrOf(inv[s].results[1].value)>>]
          [] inv[s].name = "list_recipes" ->
                inv[s].outcome.value =
                    [text |-> <<Lit("Found "), Lit(ToString(PyLen(inv[s].results[1].value))),
                                Lit(" recipes:\n\n"), StrOf(inv[s].results[1].value)>>]
          [] OTHER -> LabelColonValue(s)

\* The create_connection tool returned "Created connection: " and the text
\* of the client's result.
C17_Witness ==
    \E s \in ToolsReturned :
        /\ inv[s].name = "create_connection"
        /\ inv[s].outcome.value =
               [text |-> <<Lit("Created connection: "), StrOf(PyDict("id" :> PyInt(1)))>>]

\* The constructions that gave a client object.
Constructed == {o \in Owners : attempts[o] # NoAttempt /\ attempts[o].raised = ""}

\* C18: the credential of a constructed client is the api_token argument
\* when one is supplied (a non-empty one), and the environment's
\* WORKATO_API_TOKEN only when none is; its Authorization header is
\* "Bearer " followed by exactly that credential.
C18_CredentialSource ==
    \A o \in Constructed :
        LET credential == IF Truthy(attempts[o].api_token)
                          THEN attempts[o].api_token
                          ELSE PyStr(attempts[o].environ[TokenVar])
        IN  /\ built[o].api_token = credential
            /\ built[o].headers.dict["Authorization"] = PyStr("Bearer " \o credential.str)

\* WorkatoClient(api_token="tokA") with WORKATO_API_TOKEN=tokE in the
\* environment holds tokA.
C18_Witness ==
    /\ "direct" \in Constructed
    /\ attempts["direct"].api_token = PyStr("tokA")
    /\ TokenVar \in DOMAIN attempts["direct"].environ
    /\ attempts["direct"].environ[TokenVar] = "tokE"
    /\ built["direct"].headers.dict["Authorization"] = PyStr("Bearer tokA")

\* C19: the base URL is optional. A construction with a credential, no
\* base_url argument and WORKATO_BASE_URL unset succeeds with the default
\* base URL, and its requests go there; with WORKATO_BASE_URL unset the
\* server's startup fails only when the credential is missing.
C19_BaseUrlOptional ==
    /\ \A o \in Owners :
           (/\ attempts[o] # NoAttempt
            /\ Truthy(PyOr(attempts[o].api_token, getenv(attempts[o].environ, TokenVar, None)))
            /\ ~Truthy(attempts[o].base_url)
            /\ BaseVar \notin DOMAIN attempts[o].environ)
           => /\ o \in Constructed
              /\ built[o].base_url = PyStr(DefaultBaseUrl)
              /\ \A s \in Slots :
                     (inv[s].pc # "idle" /\ inv[s].owner = o) =>
                         \A i \in DOMAIN inv[s].sent :
                             SubSeq(inv[s].sent[i].url, 1, Len(DefaultBaseUrl)) = DefaultBaseUrl
    /\ (main = "server" /\ pc.at = "crashed" /\ BaseVar \notin DOMAIN environ) =>
           ~Truthy(getenv(environ, TokenVar, None))

\* C20: the server process constructs exactly one WorkatoClient, and every
\* registered tool of every group delegates to that one instance.
C20_OneClientPerProcess ==
    main = "server" =>
        /\ Cardinality({o \in Owners : attempts[o] # NoAttempt}) <= 1
        /\ pc.at = "serving" =>
               /\ Cardinality(Constructed) = 1
               /\ \A t \in DOMAIN registry : registry[t] \in Constructed

----------------------------------------------------------------------------
(* The registration functions called in any order, any of them left out:   *)
(* a server script that, after the imports of server.py, calls the         *)
(* register_*_tools(mcp) functions it chooses in the order it chooses.     *)

InitReg ==
    /\ Init
    /\ main = "server"
    /\ environ = (TokenVar :> "tokE") @@ (BaseVar :> "https://env.example/api")
    /\ dotenv = EmptyDict

\* The groups registered so far.
Chosen == IF pc.at \in {"registering", "serving"} THEN pc.n ELSE {}

\* One register_*_tools(mcp) call, of a group not registered yet.
RegisterAny(g) ==
    /\ main = "server"
    /\ pc.at \in {"register", "registering"}
    /\ g \notin Chosen
    /\ registry' = add_tools(registry, g)
    /\ pc' = At("registering", Chosen \cup {g})
    /\ UNCHANGED <<main, environ, dotenv, clients, built, attempts, inv>>

\* mcp.run() with the groups registered so far.
Serve ==
    /\ main = "server"
    /\ pc.at \in {"register", "registering"}
    /\ pc' = At("serving", Chosen)
    /\ UNCHANGED <<main, environ, dotenv, clients, built, attempts, registry, inv>>

\* The arguments a registered tool is invoked with: one set per tool.
RegToolInputs(t) == {CHOOSE a \in ToolInputs(t) : TRUE}

InvokeRegistered ==
    /\ main = "server"
    /\ pc.at = "serving"
    /\ \E s \in Slots, t \in DOMAIN registry :
          /\ Free(s)
          /\ \E a \in RegToolInputs(t) : ToolInvoke(s, t, a)

NextReg ==
    \/ ImportTools
    \/ LoadDotenv
    \/ ValidateEnv
    \/ \E i \in 1..Len(Groups) : RegisterAny(Groups[i])
    \/ Serve
    \/ AllIdle /\ InvokeRegistered
    \/ \E s \in Slots, response \in ConcResponses : Complete(s, response)
    \/ \E s \in Slots : Collect(s)

SpecReg == InitReg /\ [][NextReg]_vars

----------------------------------------------------------------------------
(* Invocations beside and after one another.                               *)

\* The invocation r as it starts.
Started(r) ==
    IF r.layer = "tool"
    THEN Fresh("tool", r.owner, r.name, r.given, ToolBody(r.owner, r.name, r.given).ret,
               ToolCalls(r.owner, r.name, r.given))
    ELSE Fresh("client", r.owner, r.name, r.given, NoValue,
               <<[method |-> r.name, args |-> r.given]>>)

\* The invocation r run alone: on the client as it was constructed, with no
\* other invocation before or beside it, and given the responses r got.
Alone(r) ==
    LET go == Await(Started(r), built[r.owner])
    IN  IF r.responses = <<>> THEN go.inv ELSE Resume(go.inv, go.self, r.responses[1]).inv

\* The invocation r issued the requests and has the result of its run alone.
SameAsAlone(r) ==
    LET alone == Alone(r)
    IN  /\ r.pc = alone.pc
        /\ r.calls = alone.calls
        /\ r.sent = alone.sent
        /\ r.results = alone.results
        /\ r.outcome = alone.outcome
        /\ r.events = alone.events

\* C21: an invocation that starts after another one failed (with a status
\* outside 2xx, or with a transport error) issues the request (verb, URL,
\* headers, query, body) and, given the same response, has the result of the
\* same invocation run with no failed one before it.
C21_FailureLeavesNoTrace ==
    \A s \in Slots :
        (inv[s].pc # "idle" /\ inv[s].after_failure) => SameAsAlone(inv[s])

\* get_recipes returned its value after an import_package that got a 404.
C21_Witness ==
    \E s, x \in Slots :
        /\ inv[x].pc = "done"
        /\ inv[x].name = "import_package"
        /\ inv[x].outcome.raised = "HTTPStatusError"
        /\ inv[s].pc = "done"
        /\ inv[s].name = "get_recipes"
        /\ inv[s].after_failure
        /\ inv[s].outcome.raised = ""
        /\ Len(inv[s].sent) = 1

\* C22: whatever is in flight together, each invocation issues the request
\* and has the result of its run alone; a request issued while an
\* import_package is in flight carries application/octet-stream only if it
\* is an import_package itself; and the client object, the only state the
\* invocations share, stays as it was constructed.
C22_Isolated ==
    /\ clients = built
    /\ \A s \in Slots :
          inv[s].pc # "idle" =>
              /\ SameAsAlone(inv[s])
              /\ (inv[s].beside_import /\ inv[s].name # "import_package") =>
                    \A i \in DOMAIN inv[s].sent :
                        inv[s].sent[i].kwargs["headers"].dict["Content-Type"]
                            = PyStr("application/json")

\* list_lookup_table_rows was called while an import_package was awaiting
\* its response, and both are in flight.
C22_Witness ==
    \E s, x \in Slots :
        /\ inv[x].pc = "awaiting"
        /\ inv[x].name = "import_package"
        /\ inv[s].pc = "awaiting"
        /\ inv[s].name = "list_lookup_table_rows"
        /\ inv[s].beside_import
        /\ Len(inv[s].sent) = 1

----------------------------------------------------------------------------
(* Queries and bodies.                                                     *)

\* The operations that take page and per_page.
Paged == {"get_recipe_versions", "list_lookup_tables", "list_lookup_table_rows"}

\* C23: the query of a request of get_recipe_versions, list_lookup_tables
\* or list_lookup_table_rows carries, under page and per_page, the values
\* the caller supplied, whatever the integers and whatever the filters.
C23_PagePassedThrough ==
    \A s \in Slots :
        inv[s].pc # "idle" =>
            \A i \in DOMAIN inv[s].sent :
                inv[s].calls[i].method \in Paged =>
                    \A p \in {"page", "per_page"} \cap DOMAIN inv[s].calls[i].args :
                        /\ p \in DOMAIN Query(inv[s].sent[i])
                        /\ Query(inv[s].sent[i])[p] = inv[s].calls[i].args[p]

\* The optional parameters the falsy rule names.
FalsyAbsent(m) ==
    CASE m = "get_jobs" -> {"recipe_id", "status", "limit"}
      [] m = "copy_recipe" -> {"folder_id"}
      [] m = "list_connections" ->
            {"folder_id", "parent_id", "external_id", "include_runtime_connections", "includes"}
      [] m = "generate_schema_from_csv" -> {"col_sep"}
      [] m = "get_folder_assets" -> {"folder_id"}
      [] OTHER -> {}

\* The arguments a without the parameter p.
Without(a, p) == [k \in DOMAIN a \ {p} |-> a[k]]

\* The request the invocation r would issue with the arguments a.
RequestWith(r, a) == Request(ClientMethod(r.name, built[r.owner], a))

\* A value that is falsy and is not None: 0, "", [].
FalsyValue(v) == v # None /\ ~Truthy(v)

\* C25 as stated: a request of get_jobs, copy_recipe, list_connections,
\* generate_schema_from_csv or get_folder_assets called with 0, "" or [] for
\* one of the optional parameters named is the request of the same call
\* without that parameter.
C25_FalsyIsAbsent ==
    \A s \in DirectRequests :
        \A p \in FalsyAbsent(inv[s].name) \cap DOMAIN inv[s].given :
            FalsyValue(inv[s].given[p]) =>
                inv[s].sent[1] = RequestWith(inv[s], Without(inv[s].given, p))

\* C25: the same for get_jobs, copy_recipe, list_connections and
\* generate_schema_from_csv; get_folder_assets called with a folder_id other
\* than None, 0 included, sends it as the query parameter folder_id, and
\* called with None sends the request of the call without folder_id.
C25_FalsyIsAbsentButFolderAssets ==
    \A s \in DirectRequests :
        \A p \in FalsyAbsent(inv[s].name) \cap DOMAIN inv[s].given :
            IF inv[s].name = "get_folder_assets"
            THEN IF inv[s].given[p] = None
                 THEN inv[s].sent[1] = RequestWith(inv[s], Without(inv[s].given, p))
                 ELSE /\ p \in DOMAIN Query(inv[s].sent[1])
                      /\ Query(inv[s].sent[1])[p] = inv[s].given[p]
            ELSE FalsyValue(inv[s].given[p]) =>
                    inv[s].sent[1] = RequestWith(inv[s], Without(inv[s].given, p))

\* copy_recipe(1, folder_id="") is on the transport with no body.
C25_Witness ==
    \E s \in DirectRequests :
        /\ inv[s].name = "copy_recipe"
        /\ "folder_id" \in DOMAIN inv[s].given
        /\ inv[s].given["folder_id"] = PyStr("")
        /\ inv[s].sent[1].kwargs["json"] = None

----------------------------------------------------------------------------
(* The order of the steps inside a client method.                          *)

\* In the sequence q every b has an a somewhere before it.
Before(q, a, b) == \A j \in DOMAIN q : q[j] = b => \E i \in 1..(j - 1) : q[i] = a

\* What the body of a 2xx response reads as: response.json(), or
\* response.content for the one operation that returns the bytes.
Decoded(returns, response) ==
    IF returns = "content" THEN PyBytes(response.content) ELSE json_loads(response.content)

\* C26: in every client call the status of the response is checked
\* (raise_for_status) before the body is read (response.json(), or
\* response.content in download_package); a call that returns a value got a
\* 2xx response and returns the decoded body itself, with every key and every
\* element in its place; and a client operation returns to its caller the
\* value of its call.
C26_CheckedThenDecoded ==
    \A s \in Slots :
        inv[s].pc # "idle" =>
            /\ Before(inv[s].events, "raise_for_status", "json")
            /\ Before(inv[s].events, "raise_for_status", "content")
            /\ \A i \in DOMAIN inv[s].results :
                  inv[s].results[i].raised = "" =>
                      /\ i \in DOMAIN inv[s].responses
                      /\ "status" \in DOMAIN inv[s].responses[i]
                      /\ is_success(inv[s].responses[i].status)
                      /\ inv[s].results[i].value = Decoded(inv[s].returns, inv[s].responses[i])
                      /\ inv[s].results[i].value # NoValue
            /\ (inv[s].pc = "done" /\ inv[s].layer = "client" /\ inv[s].outcome.raised = "") =>
                  /\ inv[s].results # <<>>
                  /\ inv[s].outcome.value = inv[s].results[Len(inv[s].results)].value

\* A client operation got 200 with a list of two objects and returned the
\* list of the two, in their order.
C26_Witness ==
    \E s \in Slots :
        /\ inv[s].pc = "done"
        /\ inv[s].layer = "client"
        /\ inv[s].responses = <<Response(200, "[{\"id\": 1}, {\"id\": 2}]")>>
        /\ inv[s].outcome.value = PyList(<<PyDict("id" :> PyInt(1)), PyDict("id" :> PyInt(2))>>)
        /\ Count(inv[s].events, "raise_for_status") = 1

\* The httpx clients the steps q have opened and not closed.
Open(q) == Count(q, "aenter") - Count(q, "aexit")

\* C27: every client call opens one httpx client (`async with
\* httpx.AsyncClient()`) and leaves the block before the invocation ends,
\* whether it returns or raises (status outside 2xx, transport error, body
\* that does not decode, call refused before sending); a request is sent on
\* the client its own call opened; an invocation that has ended has closed
\* every client it opened, and one that waits for its response has exactly
\* one open.
C27_ClientsClosed ==
    \A s \in Slots :
        inv[s].pc # "idle" =>
            LET q == inv[s].events
            IN  /\ \A j \in DOMAIN q :
                      /\ Open(SubSeq(q, 1, j)) \in {0, 1}
                      /\ q[j] \in {"send", "recv", "raise_for_status", "json", "content"}
                            => Open(SubSeq(q, 1, j)) = 1
                      /\ q[j] = "aenter" => Open(SubSeq(q, 1, j - 1)) = 0
                      /\ q[j] \in {"return", "raise", "tool_return", "tool_raise"} => Open(SubSeq(q, 1, j)) = 0
                /\ Count(q, "aenter") = Len(inv[s].calls)
                /\ Count(q, "send") = Len(inv[s].sent)
                /\ inv[s].pc = "done" => Open(q) = 0 /\ Count(q, "aexit") = Len(inv[s].calls)
                /\ inv[s].pc = "awaiting" => Open(q) = 1

\* A client operation whose 200 response did not decode has ended, its
\* httpx client closed.
C27_Witness ==
    \E s \in Slots :
        /\ inv[s].pc = "done"
        /\ inv[s].outcome.raised = "JSONDecodeError"
        /\ Count(inv[s].events, "aenter") = 1
        /\ Count(inv[s].events, "aexit") = 1

----------------------------------------------------------------------------
(* Server startup.                                                         *)

\* No credential is configured: neither the environment of the process nor
\* the .env file gives WORKATO_API_TOKEN a non-empty value the process reads.
CredentialAbsent == ~Truthy(getenv(load_dotenv(environ, dotenv), TokenVar, None))

\* C28: a server with no credential configured has not got past its first
\* import: it is about to run it, or the WorkatoClient() of that import
\* raised and the process ended; no tool is registered, the server is not
\* serving, and no invocation has started.  So wherever a tool is registered
\* or an invocation runs, a credential is configured and every group has
\* its client.
C28_NoCredentialNoTools ==
    main = "server" =>
        /\ CredentialAbsent =>
              /\ registry = EmptyDict
              /\ AllIdle
              /\ \/ pc = At("import", 1) /\ \A o \in Owners : attempts[o] = NoAttempt
                 \/ /\ pc.at = "crashed"
                    /\ attempts[Groups[1]] # NoAttempt
                    /\ attempts[Groups[1]].raised = "ValueError"
                    /\ \A o \in Owners \ {Groups[1]} : attempts[o] = NoAttempt
              /\ \A o \in Owners : clients[o] = NoClient
        /\ (registry # EmptyDict \/ pc.at \in {"register", "serving"} \/ ~AllIdle) =>
              /\ ~CredentialAbsent
              /\ \A i \in 1..Len(Groups) : clients[Groups[i]] # NoClient

\* The server started with WORKATO_API_TOKEN="" in its environment: the
\* first import raised and nothing is registered.
C28_Witness ==
    /\ main = "server"
    /\ CredentialAbsent
    /\ TokenVar \in DOMAIN environ
    /\ pc.at = "crashed"
    /\ attempts[Groups[1]] # NoAttempt
    /\ attempts[Groups[1]].raised = "ValueError"
    /\ registry = EmptyDict

----------------------------------------------------------------------------
(* Optional bodies.                                                        *)

\* The argument p of the client call c, None when it was not given.
Given(c, p) == IF p \in DOMAIN c.args THEN c.args[p] ELSE None

\* C29: the JSON body of a test_recipe request is the caller's input_data
\* when that is a non-empty mapping and else the empty object {}; a
\* copy_recipe request carries {"folder_id": folder_id} when folder_id is
\* truthy and else no body (json=None); a disconnect_connection request
\* carries {"force": true} when force is true and else no body.
C29_OptionalBody ==
    \A s \in Slots :
        (inv[s].pc # "idle" /\ inv[s].sent # <<>>) =>
            LET c == inv[s].calls[1]
                body == inv[s].sent[1].kwargs["json"]
            IN  /\ c.method = "test_recipe" =>
                      body = IF Truthy(Given(c, "input_data")) THEN Given(c, "input_data")
                             ELSE PyDict(EmptyDict)
                /\ c.method = "copy_recipe" =>
                      body = IF Truthy(Given(c, "folder_id"))
                             THEN PyDict("folder_id" :> Given(c, "folder_id"))
                             ELSE None
                /\ c.method = "disconnect_connection" =>
                      body = IF Given(c, "force") = PyBool(TRUE)
                             THEN PyDict("force" :> PyBool(TRUE))
                             ELSE None

\* disconnect_connection(1, force=False) is on the transport with no body.
C29_Witness ==
    \E s \in Slots :
        /\ inv[s].pc = "awaiting"
        /\ inv[s].calls[1].method = "disconnect_connection"
        /\ Given(inv[s].calls[1], "force") = PyBool(FALSE)
        /\ inv[s].sent[1].kwargs["json"] = None

\* C30: a search_custom_connectors call, whatever the title, puts one GET
\* request to <base_url>/custom_connectors/search on the transport with the
\* JSON body {"title": title}, does not fail before the request is sent, and
\* returns the decoded response.
C30_SearchSendsTitle ==
    \A s \in Slots :
        (inv[s].pc # "idle" /\ inv[s].calls # <<>>
         /\ inv[s].calls[1].method = "search_custom_connectors") =>
            /\ Len(inv[s].sent) = 1
            /\ inv[s].sent[1].verb = "get"
            /\ inv[s].sent[1].url = clients[inv[s].owner].base_url.str \o "/custom_connectors/search"
            /\ inv[s].sent[1].kwargs["json"] = PyDict("title" :> inv[s].calls[1].args["title"])
            /\ inv[s].pc = "done" =>
                  /\ Len(inv[s].responses) = 1
                  /\ inv[s].results[1] = [raised |-> ClientReturn("json", inv[s].responses[1]).raised,
                                          value |-> ClientReturn("json", inv[s].responses[1]).value]

----------------------------------------------------------------------------
(* Registration.                                                           *)

\* The tools held after the first n registrations of server.py, in its order.
RECURSIVE RegisteredAfter(_)
RegisteredAfter(n) ==
    IF n = 0 THEN EmptyDict ELSE add_tools(RegisteredAfter(n - 1), Groups[n])

FullRegistry == RegisteredAfter(Len(Groups))

\* C24: whichever of the five registration functions have been called, in
\* whatever order, the tools registered are those of the groups called,
\* each one the tool it is when server.py registers all five in its order;
\* an invoked tool calls the client, issues the request and returns the
\* result it does there; and no tool name belongs to two groups.
C24_GroupsIndependent ==
    /\ \A i, j \in 1..Len(Groups) :
          i # j => GroupTools(Groups[i]) \cap GroupTools(Groups[j]) = {}
    /\ DOMAIN registry = UNION {GroupTools(g) : g \in Chosen}
    /\ \A t \in DOMAIN registry :
          t \in DOMAIN FullRegistry /\ registry[t] = FullRegistry[t]
    /\ \A s \in Slots :
          inv[s].pc # "idle" =>
              /\ inv[s].name \in DOMAIN registry
              /\ SameAsAlone([inv[s] EXCEPT !.owner = FullRegistry[inv[s].name]])

\* lookup_tables and recipes alone are registered, and a tool of the first
\* has returned.
C24_Witness ==
    /\ pc.at = "serving"
    /\ Chosen = {"lookup_tables", "recipes"}
    /\ "list_recipes" \in DOMAIN registry
    /\ \E s \in Slots :
          /\ inv[s].pc = "done"
          /\ inv[s].owner = "lookup_tables"
          /\ inv[s].outcome.raised = ""

====
